---- MODULE Spec2Model ----
(***************************************************************************)
(* Model of the polybot live-trading core: the OrderExecutor               *)
(* (src/src/trading/index.ts), the StateManager (src/unnamed/part_006),    *)
(* the ledger tables order_tracking and live_trades                        *)
(* (src/src/trading/run.ts) and the venue they talk to.                    *)
(*                                                                         *)
(* Every async method is cut at its awaits: one action per run of          *)
(* synchronous code between two suspension points, so that calls           *)
(* interleave exactly where the single-threaded runtime lets them.         *)
(***************************************************************************)
EXTENDS Integers, Sequences, FiniteSets, TLC

\* ------------------------------------------------------------------ bounds
\* Number of executor calls (placeBuyOrder / placeSellOrder) in a behaviour.
NumCalls == 2
\* Caller-supplied idempotency keys are GivenKey(1) .. GivenKey(NumGivenKeys).
NumGivenKeys == 1
\* randomBytes(4) is drawn from 0 .. MaxHash.
MaxHash == 1

\* Number of StateManager calls made from outside the executor.
NumStateCalls == 2

\* ------------------------------------------------------- program constants
StaleThresholdMs == 30000
MinuteMs == 60000
\* ExecutorConfig.maxExposureUsd and the order size the bot uses.
MaxExposureUsd == 15
PositionSizeUsd == 10
\* USDC the account holds at the venue when the process starts.
InitialBalance == 30

Markets == {"m1", "m2"}
CallIds == 1 .. NumCalls
StateCallIds == 1 .. NumStateCalls
HashValues == 0 .. MaxHash
\* Instants the clock can have advanced to between two steps: the start, the
\* instant at which a state cached at the start turns stale, and the start
\* of the next minute bucket (a state cached at the start or one
\* millisecond after it is stale by then).
Instants == {0, StaleThresholdMs, MinuteMs}

VARIABLES
  now,             \* Date.now(), in milliseconds
  dryRun,          \* ExecutorConfig.dryRun
  venue,           \* the exchange: balance, positions, open orders, order ids
  cachedState,     \* StateManager.cachedState
  order_tracking,  \* table order_tracking, by idempotency_key (UNIQUE)
  live_trades,     \* table live_trades, in id order
  pendingOrders,   \* OrderExecutor.pendingOrders
  calls,           \* the executor calls: position in the code and locals
  stateCalls,      \* the StateManager calls made from outside the executor
  killSwitch,      \* TradingBot.killSwitch
  cycles,          \* the bot's scan cycles: position in runScanCycle
  errors,          \* TradingBot.errors, the recent-error buffer
  strategy,        \* ConvergenceStrategy: its config and riskConfig
  evaluated,       \* the last call made on the strategy, with what it returned
  backtest         \* BacktestEngine.run: its inputs, loop position and locals

vars == <<now, dryRun, venue, cachedState, order_tracking, live_trades,
          pendingOrders, calls, stateCalls, killSwitch, cycles, errors,
          strategy, evaluated, backtest>>

\* ------------------------------------------------------------------ values
NoId == <<>>
NoError == <<>>
NoKey == 0
NoState == [balance |-> 0, positions |-> {}, openOrders |-> {},
            lastSyncTime |-> -1, syncSource |-> "none"]

Max(a, b) == IF a >= b THEN a ELSE b

RECURSIVE SumOver(_, _)
\* Array.prototype.reduce((sum, x) => sum + x[f], 0) over the records of S.
SumOver(S, f) ==
  IF S = {} THEN 0
  ELSE LET x == CHOOSE y \in S : TRUE
       IN  x[f] + SumOver(S \ {x}, f)

\* A caller-supplied idempotency key.
GivenKey(i) ==
  [given |-> i, marketId |-> "", side |-> "", sizeUsd |-> 0,
   minute |-> 0, hash |-> 0]

\* generateIdempotencyKey: `order_${marketId}:${side}:${sizeUsd}:${minute}_${hash}`
\* with minute = floor(Date.now() / 60000) and hash = randomBytes(4).
generateIdempotencyKey(marketId, side, sizeUsd, t, hash) ==
  [given |-> 0, marketId |-> marketId, side |-> side, sizeUsd |-> sizeUsd,
   minute |-> t \div MinuteMs, hash |-> hash]

\* request.idempotencyKey || this.generateIdempotencyKey(request)
ResolveKey(given, marketId, side, sizeUsd, t, hash) ==
  IF given # NoKey THEN GivenKey(given)
  ELSE generateIdempotencyKey(marketId, side, sizeUsd, t, hash)

\* Entries of pendingOrders: marketId for a buy, `sell_${marketId}` for a sell.
BuyTag(m) == <<"", m>>
SellTag(m) == <<"sell_", m>>

\* --------------------------------------------------------- OrderResult
Result(success, orderId, error) ==
  [success |-> success, orderId |-> orderId, error |-> error]

NoResult == Result(FALSE, NoId, NoError)

\* The result built from a stored order_tracking row (idempotency check).
ExistingResult(rec) ==
  Result(rec.status \in {"filled", "live"}, rec.order_id, rec.error_message)

ErrInFlight == <<"Order already in flight for this market">>
ErrSellInFlight == <<"Sell order already in flight for this market">>
ErrHasPosition == <<"Already have position in this market">>
ErrHasOrder == <<"Already have open order in this market">>
ErrExposure == <<"Would exceed max exposure", MaxExposureUsd>>
ErrBalance(avail, size) == <<"Insufficient balance", avail, size>>
ErrNoOrderId == <<"No order ID returned">>
ErrVenueThrew == <<"venue request failed">>
ErrUniqueOrderId == <<"UNIQUE constraint failed: order_tracking.order_id">>
ErrUniqueKey == <<"UNIQUE constraint failed: order_tracking.idempotency_key">>

IsGateReason(e) ==
  \/ e \in {ErrInFlight, ErrHasPosition, ErrHasOrder, ErrExposure}
  \/ (Len(e) = 3 /\ e[1] = "Insufficient balance")

\* ------------------------------------------------------------ StateManager
\* fetchBalance taking the lower of the two readings.
FetchBalanceMin(clobBalance, onChainBalance) ==
  IF clobBalance <= onChainBalance THEN clobBalance ELSE onChainBalance

\* fetchBalance: Math.max(clobBalance, onChainBalance).
FetchBalance(clobBalance, onChainBalance) == Max(clobBalance, onChainBalance)

\* What one upstream balance request can yield: the account's USDC, or 0
\* (the request failed and was caught, or the venue under-reported).
BalanceReadings == {venue.balance, 0}

\* What fetchBalance can return.
FetchBalanceResults ==
  {FetchBalance(clob, chain) : clob \in BalanceReadings, chain \in BalanceReadings}

\* What fetchPositionsFromDataAPI can return: the positions, or [] when the
\* request fails.
FetchPositionsResults == {venue.positions, {}}

\* What fetchOpenOrders can return: the open orders, or [] when the request
\* fails.
FetchOpenOrdersResults == {venue.openOrders, {}}

\* The AccountState assembled by a live fetch of getState that started at t0.
FetchedState(t0, balance, openOrders, positions) ==
  [balance |-> balance,
   positions |-> positions,
   openOrders |-> openOrders,
   lastSyncTime |-> t0,
   syncSource |-> "api"]

\* The cache test that also passes at an age equal to the threshold.
CacheServesInclusive(cache, t, forceRefresh) ==
  /\ ~forceRefresh
  /\ cache # NoState
  /\ t - cache.lastSyncTime <= StaleThresholdMs

\* The cache test without the forceRefresh flag.
CacheServesUnforced(cache, t, forceRefresh) ==
  /\ cache # NoState
  /\ t - cache.lastSyncTime < StaleThresholdMs

\* getState's cache test: a cache exists, no refresh is forced, and it is
\* younger than the staleness threshold.
CacheServes(cache, t, forceRefresh) ==
  /\ ~forceRefresh
  /\ cache # NoState
  /\ t - cache.lastSyncTime < StaleThresholdMs

hasPositionInMarket(state, m) == \E p \in state.positions : p.marketId = m
hasOpenOrderForMarket(state, m) == \E o \in state.openOrders : o.market = m

\* getTotalExposure: position value plus open-order notional.
getTotalExposure(state) ==
  SumOver(state.positions, "currentValue") + SumOver(state.openOrders, "notional")

\* getAvailableBalance: Math.max(0, balance - open-order notional).
getAvailableBalance(state) ==
  Max(0, state.balance - SumOver(state.openOrders, "notional"))

\* ---------------------------------------------------------------- venue
VenueExposure ==
  SumOver(venue.positions, "currentValue") + SumOver(venue.openOrders, "notional")

\* A limit order the account may have resting at the venue from before the
\* process started (placed by hand); the executor itself only sends
\* fill-or-kill market orders, which never rest.
RestingOrder == [market |-> "m2", notional |-> 5]

\* ------------------------------------------------------------------ Init
IdleCall ==
  [pc |-> "idle", op |-> "none", marketId |-> "", sizeUsd |-> 0,
   given |-> NoKey, key |-> GivenKey(0),
   t0 |-> 0, reads |-> {}, hasPosition |-> FALSE, hasOrder |-> FALSE,
   result |-> NoResult, logged |-> FALSE,
   \* history, read by the properties only
   nSub |-> 0, prior |-> {}, venueHadPos |-> FALSE,
   venueHadOrd |-> FALSE, outcome |-> "none", recAtStart |-> "none"]

\* A StateManager call: its arguments, the instant it read the clock, and
\* what it returned.
IdleStateCall ==
  [pc |-> "idle", op |-> "none", marketId |-> "", forceRefresh |-> FALSE,
   t0 |-> 0, result |-> <<>>,
   \* history, read by the properties only
   prior |-> {}, freshAtStart |-> FALSE, up |-> {}, clobRead |-> 0,
   chainRead |-> 0, fetched |-> NoState]

\* A scan cycle: where it is suspended, when its pending getState() read
\* the clock, and the market it is processing.
IdleCycle == [pc |-> "idle", t0 |-> 0, market |-> ""]

\* A value that may be null is the empty sequence (null) or the sequence of
\* the one value.
Null == <<>>
Some(x) == <<x>>

\* risk.maxPositions of the configuration (a positive integer).
MaxPositions == 1

\* Prices are in cents of a dollar (1.0 is 100), days are whole numbers.
\* config.strategy and config.risk; holdToResolution and stopLossPercent vary.
StrategyConfigs ==
  {[config |-> [entryPriceMin |-> 85, entryPriceMax |-> 95,
                timeToResolutionDaysMin |-> 1, timeToResolutionDaysMax |-> 7,
                exitPriceTarget |-> 97, holdToResolution |-> hold],
    riskConfig |-> [positionSizeUsd |-> PositionSizeUsd,
                    maxPositions |-> maxPositions,
                    maxExposureUsd |-> MaxExposureUsd,
                    stopLossPercent |-> stop]] :
     hold \in BOOLEAN, stop \in {Null, Some(0), Some(20)},
     maxPositions \in {MaxPositions, MaxPositions + 1}}

DefaultStrategy ==
  CHOOSE st \in StrategyConfigs :
    /\ ~st.config.holdToResolution
    /\ st.riskConfig.stopLossPercent = Null
    /\ st.riskConfig.maxPositions = MaxPositions

NoCall == [fn |-> "none"]

\* No backtest is running.
IdleBacktest == [phase |-> "idle"]

\* The trading bot does not use the backtest engine.
NoBacktesting ==
  /\ strategy = DefaultStrategy
  /\ evaluated = NoCall
  /\ backtest = IdleBacktest

Init ==
  /\ stateCalls = [c \in StateCallIds |-> IdleStateCall]
  /\ killSwitch = FALSE
  /\ cycles = [k \in CallIds |-> IdleCycle]
  /\ errors = <<>>
  /\ NoBacktesting
  /\ now = 0
  /\ dryRun \in BOOLEAN
  /\ \E resting \in {{}, {RestingOrder}} :
       venue = [balance |-> InitialBalance, positions |-> {},
                openOrders |-> resting, seq |-> 0]
  /\ cachedState = NoState
  /\ order_tracking = <<>>
  /\ live_trades = <<>>
  /\ pendingOrders = {}
  /\ calls = [c \in CallIds |-> IdleCall]

\* ------------------------------------------------------------ call steps
\* Every call step is one run of synchronous code between two network
\* awaits. An await of getState() that is served from the cache involves no
\* network call: its continuation runs in the same microtask drain, before
\* any other call can be resumed, so it is part of the same step.

SetCall(c, rec) == calls' = [calls EXCEPT ![c] = rec]

\* A call that has ended keeps its request, its result and its history.
Ended(rec, pc, res) ==
  [rec EXCEPT !.pc = pc, !.result = res, !.t0 = 0, !.reads = {},
              !.hasPosition = FALSE, !.hasOrder = FALSE]

\* An early return placed inside the try block: `finally` drops the market
\* from the in-flight set.
EarlyReturnInTry(c, rec, err) ==
  /\ SetCall(c, Ended(rec, "done", Result(FALSE, NoId, err)))
  /\ pendingOrders' = pendingOrders \ {BuyTag(rec.marketId)}
  /\ UNCHANGED <<now, order_tracking>>

\* `return { success: false, error, idempotencyKey }` of a pre-flight gate:
\* the gates sit before the INSERT and before the try block.
EarlyReturn(c, rec, err) ==
  /\ SetCall(c, Ended(rec, "done", Result(FALSE, NoId, err)))
  /\ UNCHANGED <<now, order_tracking, pendingOrders>>

\* The idempotency check that treats a failed row as absent.
LookupRetryFailed(key) ==
  key \in DOMAIN order_tracking /\ order_tracking[key].status # "failed"

\* SELECT * FROM order_tracking WHERE idempotency_key = ? finds a row.
Lookup(key) == key \in DOMAIN order_tracking

\* idempotency_key is UNIQUE: an INSERT of a key that has a row throws.
UniqueKeyViolation(key) == key \in DOMAIN order_tracking

StatusOf(key) ==
  IF key \in DOMAIN order_tracking THEN order_tracking[key].status ELSE "none"

\* `return { success: ..., orderId: existingOrder.order_id, error: ... }`
ReturnExisting(c, rec) ==
  /\ SetCall(c, Ended(rec, "done", ExistingResult(order_tracking[rec.key])))
  /\ UNCHANGED <<now, order_tracking, pendingOrders>>

\* INSERT INTO order_tracking (..., status, idempotency_key) VALUES (..., 'created', ?)
InsertOrder(key, marketId, side, size) ==
  order_tracking @@
    (key :> [market_id |-> marketId, side |-> side, size |-> size,
             status |-> "created", order_id |-> NoId,
             error_message |-> NoError])

\* UPDATE order_tracking SET status = ?, order_id = ?, error_message = ? WHERE idempotency_key = ?
UpdateOrder(tbl, key, status, orderId, err) ==
  [tbl EXCEPT ![key].status = status,
              ![key].order_id = IF orderId = NoId THEN @ ELSE orderId,
              ![key].error_message = IF err = NoError THEN @ ELSE err]

\* order_id is UNIQUE: an UPDATE that would give a second row the same id throws.
OrderIdTaken(tbl, key, orderId) ==
  \E k \in DOMAIN tbl : k # key /\ tbl[k].order_id = orderId

\* Date.now() read a second time in the same synchronous run: the same
\* millisecond, or the next one.
LaterReads == {now, now + 1}

\* `dry_${Date.now()}` and `dry_sell_${Date.now()}`, read at t.
DryRunId(t) == <<"dry", t>>
DrySellId(t) == <<"dry_sell", t>>

\* The catch block of a method that deletes the in-flight entry at the end of
\* the try block instead of in `finally`.
CatchLeavesInFlight(c, rec, tbl, err, tag) ==
  /\ order_tracking' = UpdateOrder(tbl, rec.key, "failed", NoId, err)
  /\ pendingOrders' = pendingOrders
  /\ SetCall(c, Ended(rec, "done", Result(FALSE, NoId, err)))

\* The catch block that rethrows instead of returning a result.
CatchRethrows(c, rec, tbl, err, tag) ==
  /\ order_tracking' = UpdateOrder(tbl, rec.key, "failed", NoId, err)
  /\ pendingOrders' = pendingOrders \ {tag}
  /\ SetCall(c, Ended(rec, "thrown", Result(FALSE, NoId, err)))

\* catch (error): the row is marked failed with the message, a failure
\* result is returned, and `finally` removes the in-flight entry.
Catch(c, rec, tbl, err, tag) ==
  /\ order_tracking' = UpdateOrder(tbl, rec.key, "failed", NoId, err)
  /\ pendingOrders' = pendingOrders \ {tag}
  /\ SetCall(c, Ended(rec, "done", Result(FALSE, NoId, err)))

\* A dry-run branch that submits the order all the same.
DryRunSubmits(c, rec, tbl, sell, tag) ==
  /\ order_tracking' = UpdateOrder(tbl, rec.key, "submitted", NoId, NoError)
  /\ pendingOrders' = pendingOrders \cup {tag}
  /\ SetCall(c, [rec EXCEPT !.pc = "submit", !.t0 = 0, !.reads = {}, !.nSub = @ + 1])
  /\ UNCHANGED now

\* The dry-run branch of placeBuyOrder (sell = FALSE) or placeSellOrder,
\* entered with the created row in tbl: UPDATE to filled with a dry id read
\* from the clock, return success with a dry id read from the clock again.
DryRun(c, rec, tbl, sell, tag) ==
  \E t2 \in LaterReads :
    LET storedId == IF sell THEN DrySellId(now) ELSE DryRunId(now)
        returnedId == IF sell THEN DrySellId(t2) ELSE DryRunId(t2)
    IN  /\ now' = t2
        /\ IF OrderIdTaken(tbl, rec.key, storedId)
           THEN Catch(c, rec, tbl, ErrUniqueOrderId, tag)
           ELSE /\ order_tracking' = UpdateOrder(tbl, rec.key, "filled", storedId, NoError)
                /\ pendingOrders' = pendingOrders \ {tag}
                /\ SetCall(c, Ended(rec, "done", Result(TRUE, returnedId, NoError)))

\* The live branch of a method that never registers the order as in flight.
SubmitUnregistered(c, rec, tbl, tag) ==
  /\ order_tracking' = UpdateOrder(tbl, rec.key, "submitted", NoId, NoError)
  /\ pendingOrders' = pendingOrders
  /\ SetCall(c, [rec EXCEPT !.pc = "submit", !.t0 = 0, !.reads = {}, !.nSub = @ + 1])
  /\ UNCHANGED now

\* The live branch up to the await of createAndPostMarketOrder: the row is
\* marked submitted and the venue call is started.
Submit(c, rec, tbl, tag) ==
  /\ order_tracking' = UpdateOrder(tbl, rec.key, "submitted", NoId, NoError)
  /\ pendingOrders' = pendingOrders \cup {tag}
  /\ SetCall(c, [rec EXCEPT !.pc = "submit", !.t0 = 0, !.reads = {}, !.nSub = @ + 1])
  /\ UNCHANGED now

\* The request a call is started with, and what the ledger held for its key.
NewCall(c, op, m, given, key) ==
  [IdleCall EXCEPT !.op = op, !.marketId = m, !.sizeUsd = PositionSizeUsd,
                   !.given = given, !.key = key,
                   !.prior = {d \in CallIds : calls[d].pc \in {"done", "thrown"}},
                   !.recAtStart = StatusOf(key)]

\* processOpportunity holds a successful result of placeBuyOrder that it has
\* not yet passed to logTrade. Its continuation runs in the microtask drain
\* of the step that returned the result, before any other call is resumed.
LogDue(c) ==
  /\ calls[c].op = "buy"
  /\ calls[c].pc = "done"
  /\ calls[c].result.success
  /\ ~calls[c].logged

NoLogDue == \A c \in CallIds : ~LogDue(c)

CanStart(c) ==
  /\ NoLogDue
  /\ calls[c].pc = "idle"
  /\ \A d \in CallIds : d < c => calls[d].pc # "idle"

\* Gate 3 decision on the two answers.
Gate3Error(hasPosition, hasOrder) ==
  IF hasPosition THEN ErrHasPosition
  ELSE IF hasOrder THEN ErrHasOrder
  ELSE NoError

\* currentExposure + request.sizeUsd > this.config.maxExposureUsd
ExceedsExposure(currentExposure, sizeUsd) ==
  currentExposure + sizeUsd > MaxExposureUsd

\* availableBalance < request.sizeUsd
InsufficientBalance(availableBalance, sizeUsd) == availableBalance < sizeUsd

\* placeBuyOrder from the balance gate on: gate 5, INSERT of the created row
\* (outside the try block), in-flight registration, dry run or submission.
FromGate5(c, rec, availableBalance) ==
  IF InsufficientBalance(availableBalance, rec.sizeUsd)
  THEN EarlyReturn(c, rec, ErrBalance(availableBalance, rec.sizeUsd))
  ELSE IF UniqueKeyViolation(rec.key)
  THEN \* the INSERT violates UNIQUE(idempotency_key) and throws
       /\ SetCall(c, Ended(rec, "thrown", Result(FALSE, NoId, ErrUniqueKey)))
       /\ UNCHANGED <<now, order_tracking, pendingOrders>>
  ELSE LET tbl == InsertOrder(rec.key, rec.marketId, "BUY", rec.sizeUsd)
       IN  IF dryRun
           THEN DryRun(c, rec, tbl, FALSE, BuyTag(rec.marketId))
           ELSE Submit(c, rec, tbl, BuyTag(rec.marketId))

\* An await of getState() inside the call: resumed at once with the cache
\* when the cache serves, otherwise suspended at pc until the fetch returns.
AwaitFetch(c, rec, pc) ==
  /\ SetCall(c, [rec EXCEPT !.pc = pc, !.t0 = now, !.reads = {}])
  /\ UNCHANGED <<now, order_tracking, pendingOrders>>

\* placeBuyOrder from the exposure gate on, with getTotalExposure's answer;
\* cache is the cached state as this step leaves it.
FromGate4(c, rec, currentExposure, cache) ==
  IF ExceedsExposure(currentExposure, rec.sizeUsd)
  THEN EarlyReturn(c, rec, ErrExposure)
  ELSE IF CacheServes(cache, now, FALSE)
  THEN FromGate5(c, rec, getAvailableBalance(cache))
  ELSE AwaitFetch(c, rec, "gate5")

\* placeBuyOrder from the gate 3 decision on.
FromGate3(c, rec, cache) ==
  IF Gate3Error(rec.hasPosition, rec.hasOrder) # NoError
  THEN EarlyReturn(c, rec, Gate3Error(rec.hasPosition, rec.hasOrder))
  ELSE IF CacheServes(cache, now, FALSE)
  THEN FromGate4(c, rec, getTotalExposure(cache), cache)
  ELSE AwaitFetch(c, rec, "gate4")

\* placeBuyOrder that tests the in-flight guard before the idempotency key.
PlaceBuyOrderGuardFirst(c, m, given, h) ==
  LET key == ResolveKey(given, m, "YES", PositionSizeUsd, now, h)
      rec == NewCall(c, "buy", m, given, key)
  IN  IF BuyTag(m) \in pendingOrders
      THEN EarlyReturn(c, rec, ErrInFlight)
      ELSE IF Lookup(key)
      THEN ReturnExisting(c, rec)
      ELSE AwaitFetch(c, rec, "gate3")

\* placeBuyOrder up to its first await: key, idempotency check, in-flight
\* guard, then the two forced state reads of gate 3 are started.
PlaceBuyOrder(c, m, given, h) ==
  LET key == ResolveKey(given, m, "YES", PositionSizeUsd, now, h)
      rec == NewCall(c, "buy", m, given, key)
  IN  IF Lookup(key)
      THEN ReturnExisting(c, rec)
      ELSE IF BuyTag(m) \in pendingOrders
      THEN EarlyReturn(c, rec, ErrInFlight)
      ELSE AwaitFetch(c, rec, "gate3")

\* A caller invokes placeBuyOrder.
BuyStart(c) ==
  /\ CanStart(c)
  /\ \E m \in Markets, given \in 0 .. NumGivenKeys, h \in HashValues :
       /\ (given # NoKey => h = 0)
       /\ PlaceBuyOrder(c, m, given, h)
  /\ UNCHANGED <<dryRun, strategy, evaluated, backtest, errors, killSwitch, cycles, stateCalls, cachedState, live_trades, venue>>

\* One of the two getState(true) calls of gate 3 completes and overwrites
\* the cache. When both have, placeBuyOrder resumes at the gate 3 decision.
BuyGate3Read(c) ==
  /\ NoLogDue
  /\ calls[c].pc = "gate3"
  /\ \E which \in {"pos", "ord"} \ calls[c].reads,
        bal \in FetchBalanceResults, ord \in FetchOpenOrdersResults,
        pos \in FetchPositionsResults :
       LET old == calls[c]
           m == old.marketId
           state == FetchedState(old.t0, bal, ord, pos)
           rec == IF which = "pos"
                  THEN [old EXCEPT !.reads = @ \cup {"pos"},
                                   !.hasPosition = hasPositionInMarket(state, m),
                                   !.venueHadPos = hasPositionInMarket(venue, m)]
                  ELSE [old EXCEPT !.reads = @ \cup {"ord"},
                                   !.hasOrder = hasOpenOrderForMarket(state, m),
                                   !.venueHadOrd = hasOpenOrderForMarket(venue, m)]
       IN  /\ cachedState' = state
           /\ IF rec.reads # {"pos", "ord"}
              THEN /\ SetCall(c, rec)
                   /\ UNCHANGED <<now, order_tracking, pendingOrders>>
              ELSE FromGate3(c, rec, state)
  /\ UNCHANGED <<dryRun, strategy, evaluated, backtest, errors, killSwitch, cycles, stateCalls, live_trades, venue>>

\* The fetch of getTotalExposure's getState() returns.
BuyGate4(c) ==
  /\ NoLogDue
  /\ calls[c].pc = "gate4"
  /\ \E bal \in FetchBalanceResults, ord \in FetchOpenOrdersResults,
        pos \in FetchPositionsResults :
       LET state == FetchedState(calls[c].t0, bal, ord, pos)
       IN  /\ cachedState' = state
           /\ FromGate4(c, calls[c], getTotalExposure(state), state)
  /\ UNCHANGED <<dryRun, strategy, evaluated, backtest, errors, killSwitch, cycles, stateCalls, live_trades, venue>>

\* The fetch of getAvailableBalance's getState() returns.
BuyGate5(c) ==
  /\ NoLogDue
  /\ calls[c].pc = "gate5"
  /\ \E bal \in FetchBalanceResults, ord \in FetchOpenOrdersResults,
        pos \in FetchPositionsResults :
       LET state == FetchedState(calls[c].t0, bal, ord, pos)
       IN  /\ cachedState' = state
           /\ FromGate5(c, calls[c], getAvailableBalance(state))
  /\ UNCHANGED <<dryRun, strategy, evaluated, backtest, errors, killSwitch, cycles, stateCalls, live_trades, venue>>

\* The venue's positions after a buy of sizeUsd in market m fills.
PositionsAfterBuy(m, sizeUsd) ==
  LET held == {p \in venue.positions : p.marketId = m}
      value == SumOver(held, "currentValue") + sizeUsd
  IN  (venue.positions \ held) \cup {[marketId |-> m, currentValue |-> value]}

\* The live_trades row written after a fill, with status pending.
TradeRowPending(m, orderId) ==
  [market_id |-> m, question |-> "", side |-> "YES", status |-> "pending",
   order_id |-> orderId, notes |-> ""]

\* INSERT INTO live_trades (..., status, ..., order_id) VALUES (..., 'open', ..., ?)
TradeRow(m, orderId) ==
  [market_id |-> m, question |-> "", side |-> "YES", status |-> "open",
   order_id |-> orderId, notes |-> ""]

\* createAndPostMarketOrder of a buy returns an order id, returns none, or
\* throws.
BuySubmitReturn(c) ==
  /\ NoLogDue
  /\ calls[c].pc = "submit"
  /\ calls[c].op = "buy"
  /\ \E outcome \in {"orderId", "noOrderId", "throw"} :
       LET old == [calls[c] EXCEPT !.outcome = outcome]
           tag == BuyTag(old.marketId)
           orderId == <<"ord", venue.seq + 1>>
       IN  CASE outcome = "orderId" ->
                  /\ venue.balance >= old.sizeUsd
                  /\ venue' = [venue EXCEPT !.balance = @ - old.sizeUsd,
                                            !.seq = @ + 1,
                                            !.positions = PositionsAfterBuy(old.marketId, old.sizeUsd)]
                  /\ order_tracking' = UpdateOrder(order_tracking, old.key, "filled", orderId, NoError)
                  /\ live_trades' = Append(live_trades, TradeRow(old.marketId, orderId))
                  /\ pendingOrders' = pendingOrders \ {tag}
                  /\ SetCall(c, Ended(old, "done", Result(TRUE, orderId, NoError)))
              [] outcome = "noOrderId" ->
                  /\ order_tracking' = UpdateOrder(order_tracking, old.key, "failed", NoId, ErrNoOrderId)
                  /\ pendingOrders' = pendingOrders \ {tag}
                  /\ SetCall(c, Ended(old, "done", Result(FALSE, NoId, ErrNoOrderId)))
                  /\ UNCHANGED <<live_trades, venue>>
              [] outcome = "throw" ->
                  /\ Catch(c, old, order_tracking, ErrVenueThrew, tag)
                  /\ UNCHANGED <<live_trades, venue>>
  /\ UNCHANGED <<now, dryRun, strategy, evaluated, backtest, errors, killSwitch, cycles, stateCalls, cachedState>>

\* placeSellOrder up to its await: key, idempotency check, in-flight guard,
\* created row, in-flight registration, then dry run or submission.
SellStart(c) ==
  /\ CanStart(c)
  /\ \E m \in Markets, given \in 0 .. NumGivenKeys, h \in HashValues :
       LET key == ResolveKey(given, m, "NO", PositionSizeUsd, now, h)
           rec == NewCall(c, "sell", m, given, key)
           tag == SellTag(m)
       IN  /\ (given # NoKey => h = 0)
           /\ IF Lookup(key)
              THEN ReturnExisting(c, rec)
              ELSE IF tag \in pendingOrders
              THEN /\ SetCall(c, Ended(rec, "done", Result(FALSE, NoId, ErrSellInFlight)))
                   /\ UNCHANGED <<now, order_tracking, pendingOrders>>
              ELSE LET tbl == InsertOrder(key, m, "SELL", PositionSizeUsd)
                   IN  IF dryRun
                       THEN DryRun(c, rec, tbl, TRUE, tag)
                       ELSE Submit(c, rec, tbl, tag)
  /\ UNCHANGED <<dryRun, strategy, evaluated, backtest, errors, killSwitch, cycles, stateCalls, cachedState, live_trades, venue>>

\* createAndPostMarketOrder of a sell returns an order id, returns none, or
\* throws.
SellSubmitReturn(c) ==
  /\ NoLogDue
  /\ calls[c].pc = "submit"
  /\ calls[c].op = "sell"
  /\ \E outcome \in {"orderId", "noOrderId", "throw"} :
       LET old == [calls[c] EXCEPT !.outcome = outcome]
           tag == SellTag(old.marketId)
           orderId == <<"ord", venue.seq + 1>>
           held == {p \in venue.positions : p.marketId = old.marketId}
       IN  CASE outcome = "orderId" ->
                  /\ held # {}
                  /\ venue' = [venue EXCEPT !.balance = @ + SumOver(held, "currentValue"),
                                            !.seq = @ + 1,
                                            !.positions = @ \ held]
                  /\ order_tracking' = UpdateOrder(order_tracking, old.key, "filled", orderId, NoError)
                  /\ pendingOrders' = pendingOrders \ {tag}
                  /\ SetCall(c, Ended(old, "done", Result(TRUE, orderId, NoError)))
              [] outcome = "noOrderId" ->
                  /\ order_tracking' = UpdateOrder(order_tracking, old.key, "failed", NoId, ErrNoOrderId)
                  /\ pendingOrders' = pendingOrders \ {tag}
                  /\ SetCall(c, Ended(old, "done", Result(FALSE, NoId, ErrNoOrderId)))
                  /\ UNCHANGED venue
              [] outcome = "throw" ->
                  /\ Catch(c, old, order_tracking, ErrVenueThrew, tag)
                  /\ UNCHANGED venue
  /\ UNCHANGED <<now, dryRun, strategy, evaluated, backtest, errors, killSwitch, cycles, stateCalls, cachedState, live_trades>>

\* INSERT INTO live_trades (market_id, ..., question, ..., status, ..., order_id, ...)
\* VALUES (?, ..., ?, ..., 'pending', ..., ?, ...) with the market's profile.
LoggedTradeRow(m, orderId) ==
  [market_id |-> m, question |-> m, side |-> "YES", status |-> "pending",
   order_id |-> orderId, notes |-> ""]

\* processOpportunity after `await placeBuyOrder(...)` returned success:
\* logTrade(market, result.orderId, sizeUsd).
LogTrade(c) ==
  /\ LogDue(c)
  /\ live_trades' = Append(live_trades,
                           LoggedTradeRow(calls[c].marketId, calls[c].result.orderId))
  /\ SetCall(c, [calls[c] EXCEPT !.logged = TRUE])
  /\ UNCHANGED <<now, dryRun, strategy, evaluated, backtest, errors, killSwitch, cycles, stateCalls, venue, cachedState, order_tracking, pendingOrders>>

\* Time passes between two steps (observed as long as a call can still read
\* the clock: one that has not started, or one that has a cache test ahead).
Tick ==
  /\ NoLogDue
  /\ \E c \in CallIds : calls[c].pc \in {"idle", "gate3", "gate4", "gate5"}
  /\ \E t \in Instants : t > now /\ now' = t
  /\ UNCHANGED <<dryRun, strategy, evaluated, backtest, errors, killSwitch, cycles, stateCalls, venue, cachedState, order_tracking, live_trades,
                 pendingOrders, calls>>

Next ==
  \/ \E c \in CallIds : BuyStart(c)
  \/ \E c \in CallIds : BuyGate3Read(c)
  \/ \E c \in CallIds : BuyGate4(c)
  \/ \E c \in CallIds : BuyGate5(c)
  \/ \E c \in CallIds : BuySubmitReturn(c)
  \/ \E c \in CallIds : SellStart(c)
  \/ \E c \in CallIds : SellSubmitReturn(c)
  \/ \E c \in CallIds : LogTrade(c)
  \/ Tick

Spec == Init /\ [][Next]_vars

\* ------------------------------------------- StateManager, called directly
\* The upstream sources getState reads: the venue's balance endpoint, the
\* chain RPC, the venue's open-orders endpoint and the positions Data API.
Sources == {"clob", "chain", "orders", "positions"}

\* USDC (in cents) the venue may report as deposited, and USDC the proxy
\* wallet may hold on chain.
ClobBalances == {0, 5000}
OnChainBalances == {3750}

HeldPosition == [marketId |-> "m1", currentValue |-> 10]

InitState ==
  /\ stateCalls = [c \in StateCallIds |-> IdleStateCall]
  /\ killSwitch = FALSE
  /\ cycles = [k \in CallIds |-> IdleCycle]
  /\ errors = <<>>
  /\ NoBacktesting
  /\ now = 0
  /\ dryRun = FALSE
  /\ \E clob \in ClobBalances, chain \in OnChainBalances :
       venue = [balance |-> clob, onChain |-> chain,
                positions |-> {HeldPosition}, openOrders |-> {RestingOrder},
                seq |-> 0]
  /\ cachedState = NoState
  /\ order_tracking = <<>>
  /\ live_trades = <<>>
  /\ pendingOrders = {}
  /\ calls = [c \in CallIds |-> IdleCall]

SetStateCall(c, rec) == stateCalls' = [stateCalls EXCEPT ![c] = rec]

\* fetchBalance's two readings: each request yields the amount, or fails,
\* is caught, and leaves the reading at 0.
ClobReading(up) == IF "clob" \in up THEN venue.balance ELSE 0
ChainReading(up) == IF "chain" \in up THEN venue.onChain ELSE 0

\* fetchOpenOrders and fetchPositionsFromDataAPI: the list, or [] when the
\* request fails (the failure is caught and logged).
OpenOrdersReading(up) == IF "orders" \in up THEN venue.openOrders ELSE {}
PositionsReading(up) == IF "positions" \in up THEN venue.positions ELSE {}

\* What the caller receives from the AccountState getState resolved with.
Answer(op, m, state) ==
  CASE op = "getState" -> state
    [] op = "hasPositionInMarket" -> hasPositionInMarket(state, m)
    [] op = "hasOpenOrderForMarket" -> hasOpenOrderForMarket(state, m)

\* getState(forceRefresh) up to its first await: the clock is read, and a
\* cache that passes the test is returned tagged 'cache'; otherwise the three
\* fetches start.
EnterGetState(c, op, m, forceRefresh) ==
  LET rec == [IdleStateCall EXCEPT !.op = op, !.marketId = m,
                                   !.forceRefresh = forceRefresh, !.t0 = now,
                                   !.prior = {d \in StateCallIds :
                                                stateCalls[d].pc \in {"done", "thrown"}},
                                   !.freshAtStart = CacheServes(cachedState, now, FALSE)]
  IN  /\ IF CacheServes(cachedState, now, forceRefresh)
           THEN SetStateCall(c, [rec EXCEPT
                  !.pc = "done",
                  !.result = Answer(op, m, [cachedState EXCEPT !.syncSource = "cache"])])
           ELSE SetStateCall(c, [rec EXCEPT !.pc = "fetch"])
      /\ UNCHANGED <<now, dryRun, strategy, evaluated, backtest, errors, killSwitch, cycles, venue, cachedState, order_tracking, live_trades,
                     pendingOrders, calls>>

\* A caller awaits getState(forceRefresh).
GetStateCall(c) ==
  /\ stateCalls[c].pc = "idle"
  /\ \E forceRefresh \in BOOLEAN : EnterGetState(c, "getState", "", forceRefresh)

\* hasPositionInMarket(marketId): `const state = await this.getState(true)`.
HasPositionCall(c) ==
  /\ stateCalls[c].pc = "idle"
  /\ \E m \in Markets : EnterGetState(c, "hasPositionInMarket", m, TRUE)

\* hasOpenOrderForMarket(marketId): `const state = await this.getState(true)`.
HasOpenOrderCall(c) ==
  /\ stateCalls[c].pc = "idle"
  /\ \E m \in Markets : EnterGetState(c, "hasOpenOrderForMarket", m, TRUE)

\* Promise.all of the three fetches resolves (no fetcher rejects, so the
\* catch block of getState with its stale-cache fallback is never entered):
\* the state is assembled, cached and returned.
GetStateFetched(c) ==
  /\ stateCalls[c].pc = "fetch"
  /\ stateCalls[c].op # "reconcile"
  /\ \E up \in SUBSET Sources :
       LET clob == ClobReading(up)
           chain == ChainReading(up)
           state == FetchedState(stateCalls[c].t0, FetchBalance(clob, chain),
                                 OpenOrdersReading(up), PositionsReading(up))
           rec == stateCalls[c]
       IN  /\ cachedState' = state
           /\ SetStateCall(c, [rec EXCEPT
                !.pc = "done",
                !.result = Answer(rec.op, rec.marketId, state),
                !.up = up, !.clobRead = clob, !.chainRead = chain,
                !.fetched = state])
  /\ UNCHANGED <<now, dryRun, strategy, evaluated, backtest, errors, killSwitch, cycles, venue, order_tracking, live_trades, pendingOrders,
                 calls>>

NextState ==
  \/ \E c \in StateCallIds : GetStateCall(c)
  \/ \E c \in StateCallIds : HasPositionCall(c)
  \/ \E c \in StateCallIds : HasOpenOrderCall(c)
  \/ \E c \in StateCallIds : GetStateFetched(c)
  \/ Tick

SpecState == InitState /\ [][NextState]_vars

\* ----------------------------------------------------------- reconcile
\* Length of the ledger reconcile may find at startup.
MaxTrades == 2

\* status TEXT NOT NULL CHECK (status IN (...)); no row of the ledgers
\* considered is 'cancelled'.
TradeStatuses == {"open", "pending", "unknown", "closed"}

\* side TEXT NOT NULL CHECK (side IN ('YES', 'NO'))
TradeSides == {"YES", "NO"}

NoteNotFound == "Reconciliation: position not found on Polymarket"
NoteFound == "Reconciliation: found on Polymarket"

\* Positions the account may hold: both outcomes of m1, and an outcome of m2
\* that the Data API names other than Yes/No.
AccountPositions ==
  {[marketId |-> "m1", side |-> "YES", currentValue |-> 10],
   [marketId |-> "m1", side |-> "NO", currentValue |-> 5],
   [marketId |-> "m2", side |-> "UP", currentValue |-> 10]}

\* A row of live_trades as an earlier run left it.
EarlierRows ==
  [market_id : Markets, question : {""}, side : {"YES"}, status : TradeStatuses,
   order_id : {NoId}, notes : {""}]

Ledgers == UNION {[1 .. n -> EarlierRows] : n \in 0 .. MaxTrades}

InitReconcile ==
  /\ stateCalls = [c \in StateCallIds |-> IdleStateCall]
  /\ killSwitch = FALSE
  /\ cycles = [k \in CallIds |-> IdleCycle]
  /\ errors = <<>>
  /\ NoBacktesting
  /\ now = 0
  /\ dryRun = FALSE
  /\ \E held \in SUBSET AccountPositions, resting \in {{}, {RestingOrder}} :
       venue = [balance |-> 0, onChain |-> 0, positions |-> held,
                openOrders |-> resting, seq |-> 0]
  /\ cachedState = NoState
  /\ order_tracking = <<>>
  /\ live_trades \in Ledgers
  /\ pendingOrders = {}
  /\ calls = [c \in CallIds |-> IdleCall]

\* The orders in which the Data API may list a set of positions.
Listings(S) ==
  {seq \in [1 .. Cardinality(S) -> S] : \A p \in S : \E i \in DOMAIN seq : seq[i] = p}

\* SELECT * FROM live_trades WHERE status IN ('open', 'pending'): the ids.
LocalTrades(trades) ==
  {i \in 1 .. Len(trades) : trades[i].status \in {"open", "pending"}}

\* The first loop's test without the condition on the status.
IsMissingAnyStatus(state, localTrade) ==
  /\ ~hasPositionInMarket(state, localTrade.market_id)
  /\ ~hasOpenOrderForMarket(state, localTrade.market_id)

\* The first loop's test on a selected row.
IsMissing(state, localTrade) ==
  /\ ~hasPositionInMarket(state, localTrade.market_id)
  /\ ~hasOpenOrderForMarket(state, localTrade.market_id)
  /\ localTrade.status = "open"

\* The UPDATE marking a row closed instead.
MarkMissingClosed(row) ==
  [row EXCEPT !.status = "closed", !.notes = NoteNotFound]

\* UPDATE live_trades SET status = 'unknown', notes = '...' WHERE id = ?
MarkMissing(row) ==
  [row EXCEPT !.status = "unknown", !.notes = NoteNotFound]

\* The INSERT without its note.
ReconciledRowNoNote(position) ==
  [market_id |-> position.marketId, question |-> "", side |-> position.side,
   status |-> "open", order_id |-> NoId, notes |-> ""]

\* INSERT INTO live_trades (market_id, side, entry_price, size, status,
\* entry_time, notes) VALUES (?, ?, ?, ?, 'open', ?, '...')
ReconciledRow(position) ==
  [market_id |-> position.marketId, question |-> "", side |-> position.side,
   status |-> "open", order_id |-> NoId, notes |-> NoteFound]

DiscrepancyMissing(id) == <<"shows 'open' but no position/order", id>>
DiscrepancyUntracked(m) == <<"exists on Polymarket but not in local database", m>>

\* The ascending sequence of a set of row ids.
RECURSIVE Ascending(_)
Ascending(S) ==
  IF S = {} THEN <<>>
  ELSE LET least == CHOOSE i \in S : \A j \in S : i <= j
       IN  <<least>> \o Ascending(S \ {least})

\* The first element of a listing whose INSERT violates the side CHECK
\* (Len + 1 when none does).
RECURSIVE FirstRejected(_, _)
FirstRejected(listing, k) ==
  IF k > Len(listing) \/ listing[k].side \notin TradeSides THEN k
  ELSE FirstRejected(listing, k + 1)

\* reconcile() up to its await: getState(true).
ReconcileCall(c) ==
  /\ stateCalls[c].pc = "idle"
  /\ EnterGetState(c, "reconcile", "", TRUE)

\* reconcile() after getState(true) resolved: both loops and the return; a
\* rejected INSERT throws out of the second loop.
ReconcileFetched(c) ==
  /\ stateCalls[c].pc = "fetch"
  /\ stateCalls[c].op = "reconcile"
  /\ \E up \in SUBSET Sources :
     \E listing \in Listings(PositionsReading(up)) :
       LET rec == stateCalls[c]
           clob == ClobReading(up)
           chain == ChainReading(up)
           state == FetchedState(rec.t0, FetchBalance(clob, chain),
                                 OpenOrdersReading(up), PositionsReading(up))
           localTrades == LocalTrades(live_trades)
           missing == {i \in localTrades : IsMissing(state, live_trades[i])}
           updated == [i \in 1 .. Len(live_trades) |->
                         IF i \in missing THEN MarkMissing(live_trades[i])
                         ELSE live_trades[i]]
           untracked == SelectSeq(listing,
                          LAMBDA p : ~\E i \in localTrades :
                                        live_trades[i].market_id = p.marketId)
           k == FirstRejected(untracked, 1)
           inserted == [j \in 1 .. k - 1 |-> ReconciledRow(untracked[j])]
           discrepancies ==
             [j \in 1 .. Cardinality(missing) |->
                DiscrepancyMissing(Ascending(missing)[j])]
             \o [j \in 1 .. Len(untracked) |->
                   DiscrepancyUntracked(untracked[j].marketId)]
       IN  /\ cachedState' = state
           /\ live_trades' = updated \o inserted
           /\ SetStateCall(c, [rec EXCEPT
                !.pc = IF k <= Len(untracked) THEN "thrown" ELSE "done",
                !.result = IF k <= Len(untracked)
                             THEN <<"CHECK constraint failed: live_trades">>
                             ELSE [synced |-> discrepancies = <<>>,
                                   discrepancies |-> discrepancies],
                !.fetched = state])
  /\ UNCHANGED <<now, dryRun, strategy, evaluated, backtest, errors, killSwitch, cycles, venue, order_tracking, pendingOrders, calls>>

NextReconcile ==
  \/ \E c \in StateCallIds : ReconcileCall(c)
  \/ \E c \in StateCallIds : ReconcileFetched(c)

SpecReconcile == InitReconcile /\ [][NextReconcile]_vars

\* ------------------------------------------------------------ TradingBot
\* The bot is running in live mode, on an account without resting orders:
\* start() has set the two intervals. Cycle k places its order as executor
\* call k.
InitBot == Init /\ dryRun = FALSE /\ venue.openOrders = {}

SetCycle(k, pc, m) ==
  cycles' = [cycles EXCEPT ![k] = [pc |-> pc, t0 |-> now, market |-> m]]

\* Math.min(Math.floor(availableExposure / positionSizeUsd), 3), where
\* status.currentExposure has the value 0 it got in initialize() (only
\* initialize and runStateCheck write it).
MarketsToProcess ==
  LET maxNewPositions == (MaxExposureUsd - 0) \div PositionSizeUsd
  IN  IF maxNewPositions < 3 THEN maxNewPositions ELSE 3

\* config.maxTradesPerDay of the run.
maxTradesPerDay == 1

\* status.tradesPlaced: 0 at construction, incremented by processOpportunity
\* each time placeBuyOrder returned success, just before logTrade.
tradesPlaced == Cardinality({c \in CallIds : calls[c].logged})

\* processOpportunity once its getState() has resolved: with the daily trade
\* limit reached it returns; otherwise placeBuyOrder is called without an
\* idempotency key.
ProcessOpportunity(k, m) ==
  IF tradesPlaced >= maxTradesPerDay
  THEN /\ SetCycle(k, "done", m)
       /\ UNCHANGED <<now, order_tracking, pendingOrders, calls>>
  ELSE /\ \E h \in HashValues : PlaceBuyOrder(k, m, NoKey, h)
       /\ SetCycle(k, "placing", m)

\* The loop body of runScanCycle once getTotalExposure() has resolved on
\* state: the exposure re-check, then processOpportunity up to its first
\* suspension.
FromExposureCheck(k, m, state) ==
  IF ExceedsExposure(getTotalExposure(state), PositionSizeUsd)
  THEN /\ SetCycle(k, "done", m)
       /\ UNCHANGED <<now, order_tracking, pendingOrders, calls>>
  ELSE IF CacheServes(state, now, FALSE)
  THEN ProcessOpportunity(k, m)
  ELSE /\ SetCycle(k, "opportunity", m)
       /\ UNCHANGED <<now, order_tracking, pendingOrders, calls>>

\* The scan interval fires (stop() clears the interval, so the callback runs
\* only while the kill switch is off and its first check passes): getState()
\* is awaited; served from the cache, the capacity check passes and the scan
\* starts.
RunScanCycle(k) ==
  /\ NoLogDue
  /\ ~killSwitch
  /\ cycles[k].pc = "idle"
  /\ \A j \in CallIds : j < k => cycles[j].pc # "idle"
  /\ IF CacheServes(cachedState, now, FALSE)
       THEN SetCycle(k, IF MarketsToProcess >= 1 THEN "scan" ELSE "done", "")
       ELSE SetCycle(k, "capacity", "")
  /\ UNCHANGED <<now, dryRun, strategy, evaluated, backtest, errors, venue, cachedState, order_tracking, live_trades,
                 pendingOrders, calls, stateCalls, killSwitch>>

\* The fetch of the cycle's first getState() returns.
CapacityFetched(k) ==
  /\ NoLogDue
  /\ cycles[k].pc = "capacity"
  /\ \E bal \in FetchBalanceResults, ord \in FetchOpenOrdersResults,
        pos \in FetchPositionsResults :
       cachedState' = FetchedState(cycles[k].t0, bal, ord, pos)
  /\ SetCycle(k, IF MarketsToProcess >= 1 THEN "scan" ELSE "done", "")
  /\ UNCHANGED <<now, dryRun, strategy, evaluated, backtest, errors, venue, order_tracking, live_trades, pendingOrders,
                 calls, stateCalls, killSwitch>>

\* scanner.scan() returns. With no qualifying market the cycle ends;
\* otherwise the loop starts on the first one: the kill switch is checked,
\* then getTotalExposure() is awaited.
Scanned(k) ==
  /\ NoLogDue
  /\ cycles[k].pc = "scan"
  /\ \E qualifying \in {<<>>} \cup {<<m>> : m \in Markets} :
       IF qualifying = <<>> \/ killSwitch
       THEN /\ SetCycle(k, "done", "")
            /\ UNCHANGED <<now, order_tracking, pendingOrders, calls>>
       ELSE IF CacheServes(cachedState, now, FALSE)
       THEN FromExposureCheck(k, qualifying[1], cachedState)
       ELSE /\ SetCycle(k, "exposure", qualifying[1])
            /\ UNCHANGED <<now, order_tracking, pendingOrders, calls>>
  /\ UNCHANGED <<dryRun, strategy, evaluated, backtest, errors, venue, cachedState, live_trades, stateCalls, killSwitch>>

\* The fetch of getTotalExposure()'s getState() returns.
ExposureFetched(k) ==
  /\ NoLogDue
  /\ cycles[k].pc = "exposure"
  /\ \E bal \in FetchBalanceResults, ord \in FetchOpenOrdersResults,
        pos \in FetchPositionsResults :
       LET state == FetchedState(cycles[k].t0, bal, ord, pos)
       IN  /\ cachedState' = state
           /\ FromExposureCheck(k, cycles[k].market, state)
  /\ UNCHANGED <<dryRun, strategy, evaluated, backtest, errors, venue, live_trades, stateCalls, killSwitch>>

\* The fetch of processOpportunity's getState() returns.
OpportunityFetched(k) ==
  /\ NoLogDue
  /\ cycles[k].pc = "opportunity"
  /\ \E bal \in FetchBalanceResults, ord \in FetchOpenOrdersResults,
        pos \in FetchPositionsResults :
       cachedState' = FetchedState(cycles[k].t0, bal, ord, pos)
  /\ ProcessOpportunity(k, cycles[k].market)
  /\ UNCHANGED <<dryRun, strategy, evaluated, backtest, errors, venue, live_trades, stateCalls, killSwitch>>

\* stop(): the kill switch is set and both intervals are cleared.
Stop ==
  /\ NoLogDue
  /\ ~killSwitch
  /\ killSwitch' = TRUE
  /\ UNCHANGED <<now, dryRun, strategy, evaluated, backtest, errors, venue, cachedState, order_tracking, live_trades,
                 pendingOrders, calls, stateCalls, cycles>>

NextBot ==
  \/ \E k \in CallIds : RunScanCycle(k)
  \/ \E k \in CallIds : CapacityFetched(k)
  \/ \E k \in CallIds : Scanned(k)
  \/ \E k \in CallIds : ExposureFetched(k)
  \/ \E k \in CallIds : OpportunityFetched(k)
  \/ \E c \in CallIds : BuyGate3Read(c)
  \/ \E c \in CallIds : BuyGate4(c)
  \/ \E c \in CallIds : BuyGate5(c)
  \/ \E c \in CallIds : BuySubmitReturn(c)
  \/ \E c \in CallIds : LogTrade(c)
  \/ Stop
  \/ Tick

SpecBot == InitBot /\ [][NextBot]_vars

\* ------------------------------------------------------- cancelAllOrders
\* getState's Promise.all rejecting on the readings it got: every fetcher
\* catches its own failure and resolves with a default, so it never does.
\* (First the variant that rejects when no balance could be read.)
FetchRejectsOnFailure(bal, ord, pos) == bal = 0

FetchRejects(bal, ord, pos) == FALSE

ErrFetchState == <<"Failed to fetch account state">>

\* cancelAllOrders() up to its first await: in a dry run it returns at once,
\* otherwise client.cancelAll() is called.
CancelAllCall(c) ==
  /\ CanStart(c)
  /\ LET rec == [IdleCall EXCEPT
                   !.op = "cancel",
                   !.prior = {d \in CallIds : calls[d].pc \in {"done", "thrown"}}]
     IN  IF dryRun
         THEN SetCall(c, Ended(rec, "done", Result(TRUE, NoId, NoError)))
         ELSE SetCall(c, [rec EXCEPT !.pc = "cancel"])
  /\ UNCHANGED <<now, dryRun, strategy, evaluated, backtest, errors, killSwitch, cycles, stateCalls, venue, cachedState,
                 order_tracking, live_trades, pendingOrders>>

\* client.cancelAll() returns, and the forced refresh is started; or it
\* throws (with the orders cancelled or not), and the catch block returns the
\* failure.
CancelAllReturns(c) ==
  /\ NoLogDue
  /\ calls[c].pc = "cancel"
  /\ \/ /\ venue' = [venue EXCEPT !.openOrders = {}]
        /\ SetCall(c, [calls[c] EXCEPT !.pc = "refresh", !.t0 = now,
                                       !.outcome = "cancelled"])
     \/ /\ venue' \in {venue, [venue EXCEPT !.openOrders = {}]}
        /\ SetCall(c, Ended([calls[c] EXCEPT !.outcome = "throw"], "done",
                            Result(FALSE, NoId, ErrVenueThrew)))
  /\ UNCHANGED <<now, dryRun, strategy, evaluated, backtest, errors, killSwitch, cycles, stateCalls, cachedState,
                 order_tracking, live_trades, pendingOrders>>

\* The fetch of `await this.stateManager.getState(true)` ends, and
\* cancelAllOrders returns.
CancelRefreshed(c) ==
  /\ NoLogDue
  /\ calls[c].pc = "refresh"
  /\ \E bal \in FetchBalanceResults, ord \in FetchOpenOrdersResults,
        pos \in FetchPositionsResults :
       IF FetchRejects(bal, ord, pos)
       THEN /\ UNCHANGED cachedState
            /\ SetCall(c, Ended(calls[c], "done", Result(FALSE, NoId, ErrFetchState)))
       ELSE /\ cachedState' = FetchedState(calls[c].t0, bal, ord, pos)
            /\ SetCall(c, Ended(calls[c], "done", Result(TRUE, NoId, NoError)))
  /\ UNCHANGED <<now, dryRun, strategy, evaluated, backtest, errors, killSwitch, cycles, stateCalls, venue,
                 order_tracking, live_trades, pendingOrders>>

NextCancel ==
  \/ \E c \in CallIds : CancelAllCall(c)
  \/ \E c \in CallIds : CancelAllReturns(c)
  \/ \E c \in CallIds : CancelRefreshed(c)
  \/ Tick

SpecCancel == Init /\ [][NextCancel]_vars

\* ---------------------------------------------------------- paper mode
\* createExecutor(client, stateManager, mode === 'paper'): without --live the
\* executor runs dry, here against an account that holds a position in m1.
InitDryRun ==
  /\ stateCalls = [c \in StateCallIds |-> IdleStateCall]
  /\ killSwitch = FALSE
  /\ cycles = [k \in CallIds |-> IdleCycle]
  /\ errors = <<>>
  /\ NoBacktesting
  /\ now = 0
  /\ dryRun = TRUE
  /\ venue = [balance |-> InitialBalance, positions |-> {HeldPosition},
              openOrders |-> {}, seq |-> 0]
  /\ cachedState = NoState
  /\ order_tracking = <<>>
  /\ live_trades = <<>>
  /\ pendingOrders = {}
  /\ calls = [c \in CallIds |-> IdleCall]

NextDryRun ==
  \/ \E c \in CallIds : BuyStart(c)
  \/ \E c \in CallIds : BuyGate3Read(c)
  \/ \E c \in CallIds : BuyGate4(c)
  \/ \E c \in CallIds : BuyGate5(c)
  \/ \E c \in CallIds : SellStart(c)
  \/ \E c \in CallIds : CancelAllCall(c)
  \/ \E c \in CallIds : LogTrade(c)
  \/ Tick

SpecDryRun == InitDryRun /\ [][NextDryRun]_vars

\* ------------------------------------------------- cycles that fail
\* `if (this.errors.length > 100)`
MaxErrors == 100

ErrScanCycle == <<"Scan cycle failed">>
ErrStateCheck == <<"State check failed">>

\* The buffer after n earlier errors of the run (n <= 100).
EarlierErrors(n) == [i \in 1 .. n |-> <<"earlier", i>>]

\* logError without the truncation.
LogErrorUnbounded(buffer, message) == Append(buffer, message)

\* logError: push, then keep only the last 100 entries.
LogError(buffer, message) ==
  LET pushed == Append(buffer, message)
  IN  IF Len(pushed) > MaxErrors
      THEN SubSeq(pushed, Len(pushed) - MaxErrors + 1, Len(pushed))
      ELSE pushed

\* The bot is running, with an error buffer that is empty, one short of
\* full, or full.
InitCycles ==
  /\ stateCalls = [c \in StateCallIds |-> IdleStateCall]
  /\ killSwitch = FALSE
  /\ cycles = [k \in CallIds |-> IdleCycle]
  /\ errors \in {EarlierErrors(n) : n \in {0, MaxErrors - 1, MaxErrors}}
  /\ NoBacktesting
  /\ now = 0
  /\ dryRun = FALSE
  /\ venue = [balance |-> InitialBalance, positions |-> {}, openOrders |-> {},
              seq |-> 0]
  /\ cachedState = NoState
  /\ order_tracking = <<>>
  /\ live_trades = <<>>
  /\ pendingOrders = {}
  /\ calls = [c \in CallIds |-> IdleCall]

\* scanner.scan() resolves with no qualifying market: the cycle returns.
ScanFoundNothing(k) ==
  /\ cycles[k].pc = "scan"
  /\ SetCycle(k, "done", "")
  /\ UNCHANGED <<now, dryRun, strategy, evaluated, backtest, errors, venue, cachedState, order_tracking,
                 live_trades, pendingOrders, calls, stateCalls, killSwitch>>

\* scanner.scan() rejects inside the try block of runScanCycle: the catch
\* block logs the error and the cycle returns ("caught").
ScanFailed(k) ==
  /\ cycles[k].pc = "scan"
  /\ errors' = LogError(errors, ErrScanCycle)
  /\ SetCycle(k, "caught", "")
  /\ UNCHANGED <<now, dryRun, strategy, evaluated, backtest, venue, cachedState, order_tracking, live_trades,
                 pendingOrders, calls, stateCalls, killSwitch>>

\* The state-check interval fires (only while stop() has not cleared it):
\* runStateCheck up to the await of getState(true).
RunStateCheck(c) ==
  /\ ~killSwitch
  /\ stateCalls[c].pc = "idle"
  /\ \A d \in StateCallIds : d < c => stateCalls[d].pc # "idle"
  /\ SetStateCall(c, [IdleStateCall EXCEPT !.pc = "fetch", !.op = "stateCheck",
                                          !.forceRefresh = TRUE, !.t0 = now])
  /\ UNCHANGED <<now, dryRun, strategy, evaluated, backtest, errors, venue, cachedState, order_tracking,
                 live_trades, pendingOrders, calls, killSwitch, cycles>>

\* A fetch of runStateCheck returns: that of getState(true), after which
\* getTotalExposure() awaits getState() once more (served from the cache
\* unless it is stale by now), or that of getTotalExposure(). After the last
\* one the snapshot is inserted; when the INSERT throws, the catch block logs
\* the error. Either way runStateCheck returns ("caught": through the catch
\* block).
StateCheckFetched(c) ==
  /\ stateCalls[c].pc \in {"fetch", "exposure"}
  /\ stateCalls[c].op = "stateCheck"
  /\ \E bal \in FetchBalanceResults, ord \in FetchOpenOrdersResults,
        pos \in FetchPositionsResults, inserted \in BOOLEAN :
       LET rec == stateCalls[c]
           state == FetchedState(rec.t0, bal, ord, pos)
       IN  /\ cachedState' = state
           /\ IF rec.pc = "fetch" /\ ~CacheServes(state, now, FALSE)
              THEN /\ SetStateCall(c, [rec EXCEPT !.pc = "exposure", !.t0 = now])
                   /\ UNCHANGED errors
              ELSE /\ SetStateCall(c, [rec EXCEPT
                          !.pc = IF inserted THEN "done" ELSE "caught"])
                   /\ errors' = IF inserted THEN errors
                                ELSE LogError(errors, ErrStateCheck)
  /\ UNCHANGED <<now, dryRun, strategy, evaluated, backtest, venue, order_tracking, live_trades, pendingOrders,
                 calls, killSwitch, cycles>>

NextCycles ==
  \/ \E k \in CallIds : RunScanCycle(k)
  \/ \E k \in CallIds : CapacityFetched(k)
  \/ \E k \in CallIds : ScanFoundNothing(k)
  \/ \E k \in CallIds : ScanFailed(k)
  \/ \E c \in StateCallIds : RunStateCheck(c)
  \/ \E c \in StateCallIds : StateCheckFetched(c)
  \/ Stop
  \/ Tick

SpecCycles == InitCycles /\ [][NextCycles]_vars

\* ------------------------------------------------ ConvergenceStrategy
Min(a, b) == IF a <= b THEN a ELSE b

Sides == {"YES", "NO"}

\* A PricePoint: both prices in cents, the timestamp a day number.
PricePoint(yes, no, day) == [yes_price |-> yes, no_price |-> no, timestamp |-> day]

\* Market rows as far as the strategy reads them. resolution_date is a day
\* number or null, outcome a side or null.
MarketRow(id, resolutionDate, outcome) ==
  [id |-> id, is_binary |-> TRUE, resolution_date |-> resolutionDate,
   outcome |-> outcome]

ExitSignal(marketId, exitPrice, timestamp, reason) ==
  [marketId |-> marketId, exitPrice |-> exitPrice, timestamp |-> timestamp,
   reason |-> reason]

\* `price <= entryPrice * (1 - stopLossPercent / 100)`, in cents and percent.
StopLossBreached(price, entryPrice, stopLossPercent) ==
  price * 100 <= entryPrice * (100 - stopLossPercent[1])

\* A resolution test that needs the price point strictly after the date.
ResolvedStrictlyAfter(currentPrice, market) ==
  /\ market.outcome # Null
  /\ market.resolution_date # Null
  /\ currentPrice.timestamp > market.resolution_date[1]

\* `market.outcome !== null && market.resolution_date` and the price point is
\* at or after the resolution date.
Resolved(currentPrice, market) ==
  /\ market.outcome # Null
  /\ market.resolution_date # Null
  /\ currentPrice.timestamp >= market.resolution_date[1]

\* checkExitConditions that tests the resolution before the stop-loss.
CheckExitResolutionFirst(st, side, entryPrice, currentPrice, market) ==
  LET price == IF side = "YES" THEN currentPrice.yes_price
                               ELSE currentPrice.no_price
  IN  IF ~st.config.holdToResolution /\ price >= st.config.exitPriceTarget
      THEN Some(ExitSignal(market.id, price, currentPrice.timestamp, "target"))
      ELSE IF Resolved(currentPrice, market)
      THEN Some(ExitSignal(market.id,
                           IF market.outcome = Some(side) THEN 100 ELSE 0,
                           currentPrice.timestamp, "resolution"))
      ELSE IF /\ st.riskConfig.stopLossPercent # Null
              /\ StopLossBreached(price, entryPrice, st.riskConfig.stopLossPercent)
      THEN Some(ExitSignal(market.id, price, currentPrice.timestamp, "stop_loss"))
      ELSE Null

\* checkExitConditions(side, entryPrice, currentPrice, market) of a strategy
\* configured as st: an ExitSignal or null.
checkExitConditions(st, side, entryPrice, currentPrice, market) ==
  LET price == IF side = "YES" THEN currentPrice.yes_price
                               ELSE currentPrice.no_price
  IN  IF ~st.config.holdToResolution /\ price >= st.config.exitPriceTarget
      THEN Some(ExitSignal(market.id, price, currentPrice.timestamp, "target"))
      ELSE IF /\ st.riskConfig.stopLossPercent # Null
              /\ StopLossBreached(price, entryPrice, st.riskConfig.stopLossPercent)
      THEN Some(ExitSignal(market.id, price, currentPrice.timestamp, "stop_loss"))
      ELSE IF Resolved(currentPrice, market)
      THEN Some(ExitSignal(market.id,
                           IF market.outcome = Some(side) THEN 100 ELSE 0,
                           currentPrice.timestamp, "resolution"))
      ELSE Null

\* calculatePositionSize without the cap by the remaining exposure.
CalculatePositionSizeUncapped(st, currentExposure, openPositions) ==
  IF openPositions >= st.riskConfig.maxPositions THEN 0
  ELSE IF st.riskConfig.maxExposureUsd - currentExposure <= 0 THEN 0
  ELSE st.riskConfig.positionSizeUsd

\* calculatePositionSize(currentExposure, openPositions).
calculatePositionSize(st, currentExposure, openPositions) ==
  IF openPositions >= st.riskConfig.maxPositions THEN 0
  ELSE IF st.riskConfig.maxExposureUsd - currentExposure <= 0 THEN 0
  ELSE Min(st.riskConfig.positionSizeUsd,
           st.riskConfig.maxExposureUsd - currentExposure)

\* checkEntryConditions(market, pricePoint): the side and price of the entry
\* signal, or null.
checkEntryConditions(st, market, pricePoint) ==
  IF ~market.is_binary \/ market.resolution_date = Null THEN Null
  ELSE LET timeToResolution == market.resolution_date[1] - pricePoint.timestamp
       IN  IF \/ timeToResolution < st.config.timeToResolutionDaysMin
              \/ timeToResolution > st.config.timeToResolutionDaysMax
           THEN Null
           ELSE IF /\ pricePoint.yes_price >= st.config.entryPriceMin
                   /\ pricePoint.yes_price <= st.config.entryPriceMax
           THEN Some([side |-> "YES", entryPrice |-> pricePoint.yes_price,
                      timestamp |-> pricePoint.timestamp])
           ELSE IF /\ pricePoint.no_price >= 100 - st.config.entryPriceMax
                   /\ pricePoint.no_price <= 100 - st.config.entryPriceMin
           THEN Some([side |-> "NO", entryPrice |-> pricePoint.no_price,
                      timestamp |-> pricePoint.timestamp])
           ELSE Null

\* The inputs the strategy is called with.
EntryPrices == {10, 90}
ObservedPrices == {0, 8, 72, 90, 97, 100}
Days == {1, 2, 3}
ResolutionDate == 2
Exposures == {0, 5, 10, 14, 15, 20}
PositionCounts == 0 .. MaxPositions + 1

\* A strategy is constructed with one of the configurations.
InitStrategy ==
  /\ strategy \in StrategyConfigs
  /\ evaluated = NoCall
  /\ backtest = IdleBacktest
  /\ errors = <<>>
  /\ stateCalls = [c \in StateCallIds |-> IdleStateCall]
  /\ killSwitch = FALSE
  /\ cycles = [k \in CallIds |-> IdleCycle]
  /\ now = 0
  /\ dryRun = TRUE
  /\ venue = [balance |-> InitialBalance, positions |-> {}, openOrders |-> {},
              seq |-> 0]
  /\ cachedState = NoState
  /\ order_tracking = <<>>
  /\ live_trades = <<>>
  /\ pendingOrders = {}
  /\ calls = [c \in CallIds |-> IdleCall]

\* A caller evaluates checkExitConditions for a held position.
CheckExitConditions ==
  /\ evaluated = NoCall
  /\ \E side \in Sides, entryPrice \in EntryPrices, yes \in ObservedPrices,
        no \in ObservedPrices, day \in Days,
        resolutionDate \in {Null, Some(ResolutionDate)},
        outcome \in {Null} \cup {Some(o) : o \in Sides} :
       LET currentPrice == PricePoint(yes, no, day)
           market == MarketRow("m1", resolutionDate, outcome)
       IN  evaluated' =
             [fn |-> "checkExitConditions", side |-> side,
              entryPrice |-> entryPrice, currentPrice |-> currentPrice,
              market |-> market,
              result |-> checkExitConditions(strategy, side, entryPrice,
                                             currentPrice, market)]
  /\ UNCHANGED <<now, dryRun, venue, cachedState, order_tracking, live_trades,
                 pendingOrders, calls, stateCalls, killSwitch, cycles, errors,
                 strategy, backtest>>

\* A caller evaluates calculatePositionSize.
CalculatePositionSize ==
  /\ evaluated = NoCall
  /\ \E currentExposure \in Exposures, openPositions \in PositionCounts :
       evaluated' =
         [fn |-> "calculatePositionSize", currentExposure |-> currentExposure,
          openPositions |-> openPositions,
          result |-> calculatePositionSize(strategy, currentExposure,
                                           openPositions)]
  /\ UNCHANGED <<now, dryRun, venue, cachedState, order_tracking, live_trades,
                 pendingOrders, calls, stateCalls, killSwitch, cycles, errors,
                 strategy, backtest>>

\* The caller has used the returned value.
Returned ==
  /\ evaluated # NoCall
  /\ evaluated' = NoCall
  /\ UNCHANGED <<now, dryRun, venue, cachedState, order_tracking, live_trades,
                 pendingOrders, calls, stateCalls, killSwitch, cycles, errors,
                 strategy, backtest>>

NextStrategy ==
  \/ CheckExitConditions
  \/ CalculatePositionSize
  \/ Returned

SpecStrategy == InitStrategy /\ [][NextStrategy]_vars

\* ----------------------------------------------------- BacktestEngine
\* The longest price history of a market.
MaxHistory == 3

\* config.backtest.startDate and endDate, as day numbers.
StartDate == 1
EndDate == 4

\* The price history whose yes prices are ys, one point a day from day 1 on.
HistoryOf(ys) == [d \in 1 .. Len(ys) |-> PricePoint(ys[d], 100 - ys[d], d)]

\* The yes prices of histories of at most n points with prices from P.
PriceSeqs(P, n) == UNION {[1 .. k -> P] : k \in 0 .. n}

\* A resolved market with its price history and whether its classified
\* volatility is above config.strategy.maxVolatility.
BacktestMarket(id, resolutionDate, outcome, ys, tooVolatile) ==
  [id |-> id, is_binary |-> TRUE, resolution_date |-> Some(resolutionDate),
   outcome |-> Some(outcome), priceHistory |-> HistoryOf(ys),
   tooVolatile |-> tooVolatile]

\* The market lists a run works on: getResolvedMarkets() filtered by the
\* date range.
MarketLists ==
  {<<BacktestMarket("m1", 4, o1, ys1, v1), BacktestMarket("m2", 2, "YES", ys2, FALSE)>> :
     o1 \in Sides, ys1 \in PriceSeqs({50, 90, 98}, MaxHistory), v1 \in BOOLEAN,
     ys2 \in PriceSeqs({50, 90}, MaxHistory - 1)}

\* `priceHistory.filter(p => date >= startDate && date <= endDate)`
RelevantHistory(market) ==
  SelectSeq(market.priceHistory,
            LAMBDA p : p.timestamp >= StartDate /\ p.timestamp <= EndDate)

\* Phase 2 of run() is about to start: no position, no trade, no exposure.
InitBacktest ==
  /\ strategy \in StrategyConfigs
  /\ evaluated = NoCall
  /\ \E markets \in MarketLists :
       backtest = [phase |-> "simulating", markets |-> markets, i |-> 1, j |-> 1,
                   openPositions |-> {}, completedTrades |-> <<>>,
                   tradedMarkets |-> {}, currentExposure |-> 0, failed |-> {}]
  /\ errors = <<>>
  /\ stateCalls = [c \in StateCallIds |-> IdleStateCall]
  /\ killSwitch = FALSE
  /\ cycles = [k \in CallIds |-> IdleCycle]
  /\ now = 0
  /\ dryRun = TRUE
  /\ venue = [balance |-> InitialBalance, positions |-> {}, openOrders |-> {},
              seq |-> 0]
  /\ cachedState = NoState
  /\ order_tracking = <<>>
  /\ live_trades = <<>>
  /\ pendingOrders = {}
  /\ calls = [c \in CallIds |-> IdleCall]

\* The completed trade of a position closed at exitPrice.
BacktestTrade(position, exitTime, exitPrice, reason) ==
  [market_id |-> position.marketId, side |-> position.side,
   entry_time |-> position.entryTime, entry_price |-> position.entryPrice,
   exit_time |-> exitTime, exit_price |-> exitPrice,
   size_usd |-> position.sizeUsd, exit_reason |-> reason]

\* A close that forgets to mark the market as traded.
ClosePositionUnmarked(bt, position, trade) ==
  [bt EXCEPT !.completedTrades = Append(@, trade),
             !.currentExposure = @ - position.sizeUsd,
             !.openPositions = @ \ {position}]

\* The locals of run() after a position is closed: the trade is pushed, the
\* exposure released, the position deleted and the market marked as traded.
ClosePosition(bt, position, trade) ==
  [bt EXCEPT !.completedTrades = Append(@, trade),
             !.currentExposure = @ - position.sizeUsd,
             !.openPositions = @ \ {position},
             !.tradedMarkets = @ \cup {position.marketId}]

\* The open position of a market, if any.
PositionsIn(bt, marketId) == {q \in bt.openPositions : q.marketId = marketId}

\* The exit half of one price point: an open position of the market is
\* closed when checkExitConditions returns a signal.
AfterExitCheck(st, bt, market, pricePoint) ==
  IF PositionsIn(bt, market.id) = {} THEN bt
  ELSE LET position == CHOOSE q \in PositionsIn(bt, market.id) : TRUE
           exitSignal == checkExitConditions(st, position.side, position.entryPrice,
                                             pricePoint, market)
       IN  IF exitSignal = Null THEN bt
           ELSE ClosePosition(bt, position,
                  BacktestTrade(position, exitSignal[1].timestamp,
                                exitSignal[1].exitPrice, exitSignal[1].reason))

\* The entry half of one price point: without a position and if the market
\* was never traded, and unless it is too volatile, an entry signal with a
\* positive size opens a position.
AfterEntryCheck(st, bt, market, pricePoint) ==
  IF PositionsIn(bt, market.id) # {} \/ market.id \in bt.tradedMarkets THEN bt
  ELSE IF market.tooVolatile THEN bt
  ELSE LET entrySignal == checkEntryConditions(st, market, pricePoint)
           sizeUsd == calculatePositionSize(st, bt.currentExposure,
                                            Cardinality(bt.openPositions))
       IN  IF entrySignal = Null \/ sizeUsd <= 0 THEN bt
           ELSE [bt EXCEPT
                  !.openPositions = @ \cup
                     {[marketId |-> market.id, side |-> entrySignal[1].side,
                       entryPrice |-> entrySignal[1].entryPrice,
                       entryTime |-> entrySignal[1].timestamp,
                       sizeUsd |-> sizeUsd]},
                  !.currentExposure = @ + sizeUsd]

\* The run moves on to the next market, or to phase 3 after the last one.
NextMarket(bt) ==
  IF bt.i = Len(bt.markets)
  THEN [bt EXCEPT !.phase = "calculating", !.i = bt.i + 1, !.j = 1]
  ELSE [bt EXCEPT !.i = bt.i + 1, !.j = 1]

BacktestUnchanged ==
  UNCHANGED <<now, dryRun, venue, cachedState, order_tracking, live_trades,
              pendingOrders, calls, stateCalls, killSwitch, cycles, errors,
              strategy, evaluated>>

\* One iteration of `for (const pricePoint of relevantHistory)`.
SimulatePricePoint ==
  /\ backtest.phase = "simulating"
  /\ LET market == backtest.markets[backtest.i]
         history == RelevantHistory(market)
     IN  /\ Len(market.priceHistory) # 0
         /\ backtest.j <= Len(history)
         /\ backtest' =
              [AfterEntryCheck(strategy,
                 AfterExitCheck(strategy, backtest, market, history[backtest.j]),
                 market, history[backtest.j])
               EXCEPT !.j = backtest.j + 1]
  /\ BacktestUnchanged

\* The history of the market is used up (or empty: `continue`): a position
\* still open is closed at the resolution price, and the run moves on.
EndOfHistory ==
  /\ backtest.phase = "simulating"
  /\ LET market == backtest.markets[backtest.i]
         history == RelevantHistory(market)
     IN  /\ Len(market.priceHistory) = 0 \/ backtest.j > Len(history)
         /\ IF /\ Len(market.priceHistory) # 0
               /\ PositionsIn(backtest, market.id) # {}
               /\ market.outcome # Null
            THEN LET position == CHOOSE q \in PositionsIn(backtest, market.id) : TRUE
                     finalPrice == IF market.outcome = Some(position.side)
                                   THEN 100 ELSE 0
                     lastPrice == market.priceHistory[Len(market.priceHistory)]
                 IN  backtest' =
                       NextMarket(ClosePosition(backtest, position,
                         BacktestTrade(position, lastPrice.timestamp, finalPrice,
                                       "resolution")))
            ELSE backtest' = NextMarket(backtest)
  /\ BacktestUnchanged

\* getPriceHistory or a write of the trade table throws inside the try block
\* of the market: the error is recorded, what the interrupted step would have
\* changed is not, and the run moves on to the next market.
MarketFailed ==
  /\ backtest.phase = "simulating"
  /\ backtest' = NextMarket([backtest EXCEPT
                   !.failed = @ \cup {backtest.markets[backtest.i].id}])
  /\ BacktestUnchanged

NextBacktest ==
  \/ SimulatePricePoint
  \/ EndOfHistory
  \/ MarketFailed

SpecBacktest == InitBacktest /\ [][NextBacktest]_vars

\* ============================================================ properties
HasEnded(c) == calls[c].pc \in {"done", "thrown"}

\* Two calls overlap when neither had ended before the other started.
Overlap(c1, c2) ==
  /\ c1 # c2
  /\ calls[c1].pc # "idle" /\ calls[c2].pc # "idle"
  /\ c1 \notin calls[c2].prior
  /\ c2 \notin calls[c1].prior

\* C1. Idempotent replay (stated for live trading, where submissions
\* happen): when a call is made with the key and operation of a call that
\* had already returned, it makes no external submission and returns the
\* success flag, error and order id the first call returned.
C1_IdempotentReplay ==
  \A c1, c2 \in CallIds :
    ( /\ ~dryRun
      /\ c1 \in calls[c2].prior
      /\ calls[c1].pc = "done"
      /\ calls[c1].op = calls[c2].op
      /\ calls[c1].key = calls[c2].key )
    => /\ calls[c2].nSub = 0
       /\ calls[c2].pc # "thrown"
       /\ (calls[c2].pc = "done" => calls[c2].result = calls[c1].result)

\* C2. No duplicate position: of the placeBuyOrder calls for one market
\* that overlap, at most one reaches the external submission.
C2_NoDuplicateSubmission ==
  \A c1, c2 \in CallIds :
    ( /\ Overlap(c1, c2)
      /\ calls[c1].op = "buy" /\ calls[c2].op = "buy"
      /\ calls[c1].marketId = calls[c2].marketId )
    => ~(calls[c1].nSub > 0 /\ calls[c2].nSub > 0)

\* C3. Exposure bound: the account's total exposure at the venue (position
\* value plus open-order notional) never exceeds maxExposureUsd.
C3_ExposureBound == VenueExposure <= MaxExposureUsd

\* C4. Derived-key determinism: two placeBuyOrder calls without a supplied
\* key, for the same market, side and size in the same minute bucket, get
\* the same key, and the later one makes no external submission.
C4_DerivedKeyDeterministic ==
  \A c1, c2 \in CallIds :
    ( /\ c1 # c2
      /\ calls[c1].op = "buy" /\ calls[c2].op = "buy"
      /\ calls[c1].given = NoKey /\ calls[c2].given = NoKey
      /\ calls[c1].marketId = calls[c2].marketId
      /\ calls[c1].sizeUsd = calls[c2].sizeUsd
      /\ calls[c1].key.minute = calls[c2].key.minute )
    => /\ calls[c1].key = calls[c2].key
       /\ (c1 \in calls[c2].prior => calls[c2].nSub = 0)

\* C5. Key uniqueness under interleaving: of two overlapping placeBuyOrder
\* calls with the same caller-supplied key, at most one submits, and
\* neither throws.
C5_KeyUniqueInterleaved ==
  \A c1, c2 \in CallIds :
    ( /\ Overlap(c1, c2)
      /\ calls[c1].op = "buy" /\ calls[c2].op = "buy"
      /\ calls[c1].given # NoKey
      /\ calls[c1].key = calls[c2].key )
    => /\ calls[c1].nSub + calls[c2].nSub <= 1
       /\ calls[c1].pc # "thrown" /\ calls[c2].pc # "thrown"

\* The step in which call c of placeBuyOrder ends.
BuyEnds(c) ==
  /\ ~HasEnded(c)
  /\ calls'[c].pc \in {"done", "thrown"}
  /\ calls'[c].op = "buy"

\* C6. Gate rejection has no effects: the step in which placeBuyOrder ends
\* with the reason of the in-flight guard, the duplicate gate, the exposure
\* gate or the balance gate returns success=false without throwing, has
\* made no external submission, and leaves order_tracking, live_trades and
\* the in-flight set as they were.
C6_GateRejectionNoEffects ==
  [][\A c \in CallIds :
       (BuyEnds(c) /\ IsGateReason(calls'[c].result.error))
       => /\ calls'[c].pc = "done"
          /\ ~calls'[c].result.success
          /\ calls'[c].nSub = 0
          /\ order_tracking' = order_tracking
          /\ live_trades' = live_trades
          /\ pendingOrders' = pendingOrders]_vars

\* A buy has been rejected by the in-flight guard while another buy of the
\* same market is registered in flight.
C6_Witness ==
  \E c \in CallIds :
    /\ calls[c].pc = "done"
    /\ calls[c].op = "buy"
    /\ calls[c].result.error = ErrInFlight
    /\ BuyTag(calls[c].marketId) \in pendingOrders

\* C7. Duplicate gate against venue truth: a placeBuyOrder call whose gate 3
\* reads were made while the venue held a position or an open order in the
\* market makes no external submission and does not return success.
C7_DuplicateGateVenueTruth ==
  \A c \in CallIds :
    (calls[c].op = "buy" /\ (calls[c].venueHadPos \/ calls[c].venueHadOrd))
    => /\ calls[c].nSub = 0
       /\ ~calls[c].result.success

\* The step in which placeBuyOrder returns success with an order id.
BuySucceeds(c) ==
  /\ BuyEnds(c)
  /\ calls'[c].pc = "done"
  /\ calls'[c].result.success
  /\ calls'[c].result.orderId # NoId

TradeRowsOf(trades, orderId) ==
  {i \in 1 .. Len(trades) : trades[i].order_id = orderId}

\* The rows of an order that the executor inserted (they carry no market
\* profile; the rows logTrade inserts do).
ExecutorRowsOf(trades, orderId) ==
  {i \in TradeRowsOf(trades, orderId) : trades[i].question = ""}

BusinessRejected(c) ==
  IsGateReason(calls[c].result.error) \/ calls[c].result.error = ErrSellInFlight

C10_FailedNotRetried ==
  \A c \in CallIds :
    calls[c].recAtStart = "failed"
    => /\ calls[c].pc = "done"
       /\ calls[c].nSub = 0
       /\ ~calls[c].result.success
       /\ calls[c].result.error = order_tracking[calls[c].key].error_message
       /\ order_tracking[calls[c].key].status = "failed"

\* A call has been made with the key of a failed row.
C10_Witness ==
  \E c \in CallIds : calls[c].recAtStart = "failed" /\ calls[c].pc = "done"

\* The step in which call c of placeSellOrder starts (and runs to its await
\* or to its return).
SellStarts(c) == calls[c].pc = "idle" /\ calls'[c].op = "sell"

\* C11. Sell path protections: of the placeSellOrder calls for one market at
\* most one is between its in-flight registration and the completion of its
\* external submission; a call that arrives meanwhile makes no external call
\* and, unless it is a replay, returns success=false with the in-flight
\* reason, writing nothing; a call whose key has a row returns the stored
\* result without an external call; and no placeSellOrder call is rejected
\* for exposure or balance.
C11_SellPathProtections ==
  [][/\ \A c1, c2 \in CallIds :
          ( /\ c1 # c2
            /\ calls'[c1].op = "sell" /\ calls'[c2].op = "sell"
            /\ calls'[c1].marketId = calls'[c2].marketId )
          => ~(calls'[c1].pc = "submit" /\ calls'[c2].pc = "submit")
     /\ \A c \in CallIds :
          SellStarts(c)
          => /\ SellTag(calls'[c].marketId) \in pendingOrders
                => /\ calls'[c].pc = "done"
                   /\ calls'[c].nSub = 0
                   /\ order_tracking' = order_tracking
                   /\ pendingOrders' = pendingOrders
                   /\ calls'[c].recAtStart = "none"
                      => calls'[c].result = Result(FALSE, NoId, ErrSellInFlight)
             /\ calls'[c].recAtStart # "none"
                => /\ calls'[c].pc = "done"
                   /\ calls'[c].nSub = 0
                   /\ calls'[c].result = ExistingResult(order_tracking[calls'[c].key])
     /\ \A c \in CallIds :
          calls'[c].op = "sell"
          => /\ calls'[c].result.error # ErrExposure
             /\ ~(Len(calls'[c].result.error) = 3
                  /\ calls'[c].result.error[1] = "Insufficient balance")]_vars

\* A placeSellOrder call has been turned away by the in-flight guard while
\* another one for the same market awaits its submission.
C11_Witness ==
  \E c1, c2 \in CallIds :
    /\ calls[c1].op = "sell" /\ calls[c1].pc = "submit"
    /\ calls[c2].op = "sell" /\ calls[c2].pc = "done"
    /\ calls[c2].marketId = calls[c1].marketId
    /\ calls[c2].result.error = ErrSellInFlight

\* C12. In-flight cleanup on every exit path: the step in which a call that
\* registered its market as in flight ends (the venue returned an order id,
\* returned none, or the submission threw) leaves the in-flight set without
\* its entry, and when no call is executing the in-flight set is empty.
C12_InFlightCleanup ==
  [][/\ \A c \in CallIds :
          (calls[c].pc = "submit" /\ calls'[c].pc \in {"done", "thrown"})
          => /\ calls'[c].outcome \in {"orderId", "noOrderId", "throw"}
             /\ calls'[c].op = "buy" => BuyTag(calls'[c].marketId) \notin pendingOrders'
             /\ calls'[c].op = "sell" => SellTag(calls'[c].marketId) \notin pendingOrders'
     /\ (\A c \in CallIds : calls'[c].pc \in {"idle", "done", "thrown"})
        => pendingOrders' = {}]_vars

\* A submission has thrown, its call has ended, and nothing is in flight.
C12_Witness ==
  /\ \E c \in CallIds : calls[c].outcome = "throw" /\ HasEnded(c)
  /\ \A c \in CallIds : calls[c].pc \in {"idle", "done", "thrown"}
  /\ pendingOrders = {}

\* A StateManager call leaves its fetch in this step.
FetchEnds(c) == stateCalls[c].pc = "fetch" /\ stateCalls'[c].pc # "fetch"

\* The sources a live-tagged state must have heard from: one of the two
\* balance sources, the open-orders endpoint and the positions endpoint.
Observed(up) ==
  /\ up \cap {"clob", "chain"} # {}
  /\ "orders" \in up
  /\ "positions" \in up

\* C13. getState failure contract: when no upstream source answers and no
\* cache exists, getState fails with an error; when no source answers and a
\* cache exists, it returns the cached state tagged 'cache'; and a state
\* tagged 'api' always has a balance, orders and positions that were
\* observed.
C13_GetStateFailureContract ==
  [][\A c \in StateCallIds :
       (FetchEnds(c) /\ stateCalls'[c].op = "getState")
         => LET r == stateCalls'[c]
            IN  /\ (r.up = {} /\ cachedState = NoState) => r.pc = "thrown"
                /\ (r.up = {} /\ cachedState # NoState)
                     => /\ r.pc = "done"
                        /\ r.result = [cachedState EXCEPT !.syncSource = "cache"]
                /\ (r.pc = "done" /\ r.result.syncSource = "api")
                     => Observed(r.up)]_vars

\* A duplicate-prevention query that has returned.
IsAnswered(c) ==
  /\ stateCalls[c].pc = "done"
  /\ stateCalls[c].op \in {"hasPositionInMarket", "hasOpenOrderForMarket"}

ReturnedFetched(c) ==
  /\ stateCalls[c].pc = "done"
  /\ stateCalls[c].op = "getState"
  /\ stateCalls[c].fetched # NoState

\* C15. Balance asymmetric trust: the balance of a state getState fetched is
\* the greater of the venue-reported reading and the on-chain reading, where
\* a reading whose request failed is 0; venue 0 and on-chain 37.50 give
\* 37.50 (amounts in cents), and the balance is never below either reading.
C15_BalanceIsMaximum ==
  \A c \in StateCallIds :
    ReturnedFetched(c)
      => LET r == stateCalls[c]
             balance == r.result.balance
         IN  /\ r.clobRead = (IF "clob" \in r.up THEN venue.balance ELSE 0)
             /\ r.chainRead = (IF "chain" \in r.up THEN venue.onChain ELSE 0)
             /\ balance \in {r.clobRead, r.chainRead}
             /\ balance >= r.clobRead
             /\ balance >= r.chainRead
             /\ (r.clobRead = 0 /\ r.chainRead = 3750) => balance = 3750

\* The venue answers 0, the chain answers 37.50 and the state reports
\* 37.50; and a state fetched while the chain request failed.
C15_Witness ==
  /\ \E c \in StateCallIds :
       /\ ReturnedFetched(c)
       /\ stateCalls[c].up = Sources
       /\ venue.balance = 0
       /\ stateCalls[c].chainRead = 3750
       /\ stateCalls[c].result.balance = 3750
  /\ \E c \in StateCallIds :
       /\ ReturnedFetched(c)
       /\ "chain" \notin stateCalls[c].up
       /\ stateCalls[c].result.balance = venue.balance

\* reconcile() returns in this step.
ReconcileReturns(c) ==
  /\ FetchEnds(c)
  /\ stateCalls'[c].op = "reconcile"
  /\ stateCalls'[c].pc = "done"

\* How many entries of a discrepancy list equal d.
Occurrences(discrepancies, d) ==
  Cardinality({j \in DOMAIN discrepancies : discrepancies[j] = d})

\* C16 as stated: when reconcile() returns, every
\* ledger row that had status open or pending and whose market has neither a
\* position nor an open order in the fetched state has status unknown, and
\* the returned list holds one discrepancy for it.
C16_Original ==
  [][\A c \in StateCallIds :
       ReconcileReturns(c)
         => \A i \in 1 .. Len(live_trades) :
              (/\ live_trades[i].status \in {"open", "pending"}
               /\ ~hasPositionInMarket(stateCalls'[c].fetched, live_trades[i].market_id)
               /\ ~hasOpenOrderForMarket(stateCalls'[c].fetched, live_trades[i].market_id))
                => /\ live_trades'[i].status = "unknown"
                   /\ Occurrences(stateCalls'[c].result.discrepancies,
                                  DiscrepancyMissing(i)) = 1]_vars

\* The market of ledger row i has neither a position nor an open order in
\* the state that call c fetched.
AbsentFor(c, i) ==
  /\ ~hasPositionInMarket(stateCalls'[c].fetched, live_trades[i].market_id)
  /\ ~hasOpenOrderForMarket(stateCalls'[c].fetched, live_trades[i].market_id)

\* C16. Reconcile flags missing trades: when reconcile() returns, every
\* ledger row that had status open and whose market has neither a position
\* nor an open order in the fetched state has status unknown and the note of
\* the reconciliation, and the returned list holds one discrepancy for it; a
\* row that had status pending is left as it was and no discrepancy is
\* reported for it.
C16_FlagsMissingOpenTrades ==
  [][\A c \in StateCallIds :
       ReconcileReturns(c)
         => \A i \in 1 .. Len(live_trades) :
              /\ (live_trades[i].status = "open" /\ AbsentFor(c, i))
                   => /\ live_trades'[i] = [live_trades[i] EXCEPT
                                              !.status = "unknown",
                                              !.notes = NoteNotFound]
                      /\ Occurrences(stateCalls'[c].result.discrepancies,
                                     DiscrepancyMissing(i)) = 1
              /\ live_trades[i].status = "pending"
                   => /\ live_trades'[i] = live_trades[i]
                      /\ Occurrences(stateCalls'[c].result.discrepancies,
                                     DiscrepancyMissing(i)) = 0]_vars

\* reconcile() has returned, an open row was flagged and reported once, and
\* a pending row whose market is absent from the fetched state was not.
C16_Witness ==
  \E c \in StateCallIds :
    /\ stateCalls[c].pc = "done"
    /\ stateCalls[c].op = "reconcile"
    /\ \E i, j \in 1 .. Len(live_trades) :
         /\ live_trades[i].status = "unknown"
         /\ live_trades[i].notes = NoteNotFound
         /\ Occurrences(stateCalls[c].result.discrepancies, DiscrepancyMissing(i)) = 1
         /\ live_trades[j].status = "pending"
         /\ ~hasPositionInMarket(stateCalls[c].fetched, live_trades[j].market_id)
         /\ ~hasOpenOrderForMarket(stateCalls[c].fetched, live_trades[j].market_id)

\* C17. unknown is sticky: no step deletes a ledger row, a row with status
\* unknown keeps that status (and its market and order id), and no step sets
\* a status to closed.
C17_UnknownIsSticky ==
  [][/\ Len(live_trades') >= Len(live_trades)
     /\ \A i \in 1 .. Len(live_trades) :
          /\ live_trades'[i].market_id = live_trades[i].market_id
          /\ live_trades'[i].order_id = live_trades[i].order_id
          /\ live_trades[i].status = "unknown" => live_trades'[i] = live_trades[i]
          /\ live_trades'[i].status = "closed" => live_trades[i].status = "closed"]_vars

\* reconcile() has returned having found a position in the market of a row
\* that was unknown from the start, and next to a row it had to flag.
C17_Witness ==
  \E c \in StateCallIds :
    /\ stateCalls[c].pc = "done"
    /\ stateCalls[c].op = "reconcile"
    /\ \E i, j \in 1 .. Len(live_trades) :
         /\ live_trades[i].status = "unknown"
         /\ live_trades[i].notes = ""
         /\ hasPositionInMarket(stateCalls[c].fetched, live_trades[i].market_id)
         /\ live_trades[j].notes = NoteNotFound

\* The ledger rows of market m that count as local records.
LocalRecordsOf(trades, m) ==
  {i \in LocalTrades(trades) : trades[i].market_id = m}

\* C18. The ledger becomes a superset of reality: when reconcile() returns,
\* every position of the fetched state has a ledger row with status open or
\* pending for its market; a position whose market had none has exactly one
\* new row, which carries the reconciliation note, and the returned list
\* holds one discrepancy per such position.
C18_LedgerSupersetOfReality ==
  [][\A c \in StateCallIds :
       ReconcileReturns(c)
         => \A p \in stateCalls'[c].fetched.positions :
              /\ LocalRecordsOf(live_trades', p.marketId) # {}
              /\ LocalRecordsOf(live_trades, p.marketId) = {}
                   => /\ Cardinality({i \in Len(live_trades) + 1 .. Len(live_trades') :
                                        live_trades'[i] = ReconciledRow(p)}) = 1
                      /\ ReconciledRow(p).notes = NoteFound
                      /\ Occurrences(stateCalls'[c].result.discrepancies,
                                     DiscrepancyUntracked(p.marketId))
                           = Cardinality({q \in stateCalls'[c].fetched.positions :
                                            q.marketId = p.marketId})]_vars

\* reconcile() has returned after inserting rows for two positions of one
\* market, reporting both.
C18_Witness ==
  \E c \in StateCallIds :
    /\ stateCalls[c].pc = "done"
    /\ stateCalls[c].op = "reconcile"
    /\ Cardinality(stateCalls[c].fetched.positions) = 2
    /\ Occurrences(stateCalls[c].result.discrepancies, DiscrepancyUntracked("m1")) = 2
    /\ Cardinality({i \in 1 .. Len(live_trades) :
                      /\ live_trades[i].notes = NoteFound
                      /\ live_trades[i].status = "open"
                      /\ live_trades[i].market_id = "m1"}) = 2

\* C19. Reconciliation idempotence: a reconcile() that starts after another
\* one has ended, with no change to the external state or the ledger in
\* between, returns synced = true with an empty discrepancy list and changes
\* no ledger row.
C19_ReconcileIdempotent ==
  [][\A c \in StateCallIds :
       (/\ FetchEnds(c)
        /\ stateCalls'[c].op = "reconcile"
        /\ stateCalls'[c].prior # {})
         => /\ stateCalls'[c].pc = "done"
            /\ stateCalls'[c].result.synced
            /\ stateCalls'[c].result.discrepancies = <<>>
            /\ live_trades' = live_trades]_vars

\* placeBuyOrder is called in this step.
CallStarts(c) == calls[c].pc = "idle" /\ calls'[c].pc # "idle"

\* createAndPostMarketOrder is called in this step.
SubmissionStarts(c) == calls[c].pc # "submit" /\ calls'[c].pc = "submit"

\* C20. The kill switch stops new actions: once stop() has set the kill
\* switch, no scan cycle calls placeBuyOrder and no external submission is
\* started, also by a cycle that had passed its kill-switch check and was
\* suspended on a state read when stop() ran.
C20_KillSwitchStopsNewActions ==
  [][killSwitch => \A c \in CallIds : ~CallStarts(c) /\ ~SubmissionStarts(c)]_vars

\* stop() runs to completion in this step. stop() contains no await, so the
\* signal handler's `await bot.stop(...)` resumes in the same microtask
\* drain and calls process.exit(0): this is the state the process exits in.
StopCompletes == ~killSwitch /\ killSwitch'

\* The order_tracking rows without a resolution.
Unresolved(tbl) ==
  {key \in DOMAIN tbl : tbl[key].status \in {"created", "submitted"}}

\* C21. Shutdown drains: when stop() has completed and the signal handler
\* exits the process, no submission is in flight and no OrderTrackingRecord
\* has status created or submitted.
C21_ShutdownDrains ==
  [][StopCompletes
       => /\ \A c \in CallIds : calls'[c].pc # "submit"
          /\ pendingOrders' = {}
          /\ Unresolved(order_tracking') = {}]_vars

\* cancelAllOrders returns in this step.
CancelEnds(c) ==
  /\ calls'[c].op = "cancel"
  /\ calls[c].pc \notin {"done", "thrown"}
  /\ calls'[c].pc \in {"done", "thrown"}

\* C22. Cancel-all is best-effort: in live mode, when the venue's cancel-all
\* call has succeeded, cancelAllOrders returns success = true whatever the
\* forced state refresh that follows yields, and cancelAllOrders never
\* throws.
C22_CancelAllBestEffort ==
  [][\A c \in CallIds :
       CancelEnds(c)
         => /\ calls'[c].pc = "done"
            /\ (~dryRun /\ calls'[c].outcome = "cancelled")
                 => calls'[c].result = Result(TRUE, NoId, NoError)]_vars

\* A live cancelAllOrders returned success after a refresh in which no
\* balance could be read.
C22_Witness ==
  \E c \in CallIds :
    /\ ~dryRun
    /\ calls[c].op = "cancel"
    /\ calls[c].pc = "done"
    /\ calls[c].outcome = "cancelled"
    /\ calls[c].result.success
    /\ cachedState # NoState
    /\ cachedState.balance = 0
    /\ venue.balance > 0

\* A call returns in this step with the given failure reason.
RejectedWith(c, err) ==
  /\ calls[c].pc \notin {"done", "thrown"}
  /\ calls'[c].pc = "done"
  /\ calls'[c].result = Result(FALSE, NoId, err)

\* C23. A dry run makes no venue mutation: with dryRun = true no call of
\* placeBuyOrder, placeSellOrder or cancelAllOrders ever starts the venue's
\* order submission or its cancel call, and the venue is left as it was;
\* the gates are evaluated all the same: a buy is rejected for exposure or
\* balance exactly on the state read for that gate, a request that passes
\* the gates gets its row filled with a dry id, and one whose key has a row
\* gets the stored result.
C23_DryRunNoVenueMutation ==
  [][/\ venue' = venue
     /\ \A c \in CallIds :
          /\ calls'[c].pc \notin {"submit", "cancel", "refresh"}
          /\ calls'[c].nSub = 0
          /\ RejectedWith(c, ErrExposure)
               => ExceedsExposure(getTotalExposure(cachedState'), calls'[c].sizeUsd)
          /\ RejectedWith(c, ErrBalance(getAvailableBalance(cachedState'),
                                        calls'[c].sizeUsd))
               => InsufficientBalance(getAvailableBalance(cachedState'),
                                      calls'[c].sizeUsd)
          /\ RejectedWith(c, ErrHasPosition)
               => hasPositionInMarket(venue, calls'[c].marketId)
          /\ (/\ calls[c].pc \notin {"done", "thrown"}
              /\ calls'[c].pc = "done"
              /\ calls'[c].op \in {"buy", "sell"}
              /\ calls'[c].result.success)
               => IF calls'[c].recAtStart = "none"
                  THEN /\ order_tracking'[calls'[c].key].status = "filled"
                       /\ calls'[c].result.orderId[1] \in {"dry", "dry_sell"}
                  ELSE calls'[c].result = ExistingResult(order_tracking[calls'[c].key])]_vars

\* In a dry run a buy has returned success with a dry id, and
\* cancelAllOrders has returned.
C23_Witness ==
  /\ dryRun
  /\ \E c1, c2 \in CallIds :
       /\ calls[c1].op = "buy"
       /\ calls[c1].pc = "done"
       /\ calls[c1].result.success
       /\ calls[c1].result.orderId[1] = "dry"
       /\ calls[c2].op = "cancel"
       /\ calls[c2].pc = "done"
       /\ calls[c2].result.success


\* A scan cycle (a state check) leaves through its catch block in this step.
ScanCaught(k) == cycles[k].pc # "caught" /\ cycles'[k].pc = "caught"
CheckCaught(c) == stateCalls[c].pc # "caught" /\ stateCalls'[c].pc = "caught"

\* C24: an exception inside a runScanCycle or runStateCheck iteration is
\* caught and appended to the error buffer (which keeps its last 100 entries
\* and never holds more), the iteration returns instead of throwing, the
\* timers stay armed (the kill switch is untouched, and while it is off a new
\* scan cycle and a new state check can start), and only stop() sets the kill
\* switch.
C24_CycleErrorContainment ==
  [][ /\ Len(errors') <= MaxErrors
      /\ \A k \in CallIds :
           /\ cycles'[k].pc # "thrown"
           /\ ScanCaught(k) =>
                /\ Len(errors') = IF Len(errors) < MaxErrors THEN Len(errors) + 1
                                  ELSE MaxErrors
                /\ errors'[Len(errors')] = ErrScanCycle
                /\ \A i \in 1 .. Len(errors') - 1 :
                     errors'[i] = errors[Len(errors) - (Len(errors') - 1) + i]
                /\ killSwitch' = killSwitch
      /\ \A c \in StateCallIds :
           /\ stateCalls'[c].pc # "thrown"
           /\ CheckCaught(c) =>
                /\ Len(errors') = IF Len(errors) < MaxErrors THEN Len(errors) + 1
                                  ELSE MaxErrors
                /\ errors'[Len(errors')] = ErrStateCheck
                /\ \A i \in 1 .. Len(errors') - 1 :
                     errors'[i] = errors[Len(errors) - (Len(errors') - 1) + i]
                /\ killSwitch' = killSwitch
      /\ errors' # errors =>
           \/ \E k \in CallIds : ScanCaught(k)
           \/ \E c \in StateCallIds : CheckCaught(c)
      /\ killSwitch' # killSwitch =>
           /\ killSwitch'
           /\ cycles' = cycles /\ stateCalls' = stateCalls /\ errors' = errors
      /\ (~killSwitch /\ \E k \in CallIds : cycles[k].pc = "idle") =>
           ENABLED (\E k \in CallIds : RunScanCycle(k))
      /\ (~killSwitch /\ \E c \in StateCallIds : stateCalls[c].pc = "idle") =>
           ENABLED (\E c \in StateCallIds : RunStateCheck(c))
    ]_vars

\* Both handlers have failed, the scan cycle first, with the buffer already
\* full: the oldest entries were dropped, and a later state check ran.
C24_Witness ==
  /\ Len(errors) = MaxErrors
  /\ errors[MaxErrors] = ErrStateCheck
  /\ errors[MaxErrors - 1] = ErrScanCycle
  /\ errors[1] = <<"earlier", 3>>
  /\ \E k \in CallIds : cycles[k].pc = "caught"
  /\ \E c \in StateCallIds : stateCalls[c].pc = "caught"
  /\ ~killSwitch

\* C25: after any sequence of successful placeBuyOrder calls the number of
\* markets with an open position never exceeds maxPositions.
C25_PositionLimit ==
  Cardinality({p.marketId : p \in venue.positions}) <= MaxPositions

\* The call of checkExitConditions last evaluated, in the words of the
\* configuration: the price of the held side and which triggers fire on it.
ExitCall == evaluated.fn = "checkExitConditions"
HeldPrice ==
  IF evaluated.side = "YES" THEN evaluated.currentPrice.yes_price
                            ELSE evaluated.currentPrice.no_price
TargetFires ==
  ~strategy.config.holdToResolution /\ HeldPrice >= strategy.config.exitPriceTarget
StopLossFires ==
  /\ strategy.riskConfig.stopLossPercent # Null
  /\ HeldPrice * 100 <=
       evaluated.entryPrice * (100 - strategy.riskConfig.stopLossPercent[1])
ResolutionFires ==
  /\ evaluated.market.outcome # Null
  /\ evaluated.market.resolution_date # Null
  /\ evaluated.currentPrice.timestamp >= evaluated.market.resolution_date[1]
ReasonOf(result) == IF result = Null THEN "none" ELSE result[1].reason

\* C26: checkExitConditions returns the first trigger that fires in the order
\* target (only without holdToResolution), stop-loss (whenever configured),
\* resolution, and null when none fires; with holdToResolution a price at or
\* above the target never gives reason target, and a price at or below the
\* stop-loss threshold gives reason stop_loss.
C26_ExitTriggerPrecedence ==
  ExitCall =>
    /\ ReasonOf(evaluated.result) =
         IF TargetFires THEN "target"
         ELSE IF StopLossFires THEN "stop_loss"
         ELSE IF ResolutionFires THEN "resolution"
         ELSE "none"
    /\ ReasonOf(evaluated.result) \in {"target", "stop_loss"} =>
         evaluated.result[1].exitPrice = HeldPrice
    /\ strategy.config.holdToResolution =>
         /\ ReasonOf(evaluated.result) # "target"
         /\ StopLossFires => ReasonOf(evaluated.result) = "stop_loss"

\* With holdToResolution, a resolved market and the stop-loss breached at the
\* same price point: the stop-loss is reported.
C26_Witness ==
  /\ ExitCall
  /\ strategy.config.holdToResolution
  /\ StopLossFires
  /\ ResolutionFires
  /\ ReasonOf(evaluated.result) = "stop_loss"

\* The exit price of a resolution: 1.0 for the winning side, 0.0 otherwise.
IsResolutionExit ==
  /\ ReasonOf(evaluated.result) = "resolution"
  /\ evaluated.result[1].exitPrice =
       IF evaluated.market.outcome = Some(evaluated.side) THEN 100 ELSE 0

\* C27 as stated: at or after the resolution date of a market with a known
\* outcome, checkExitConditions returns reason resolution with exit price 1.0
\* or 0.0, for every configuration of target and stop-loss.
C27_Original == (ExitCall /\ ResolutionFires) => IsResolutionExit

\* C27: at or after the resolution date of a market with a known outcome,
\* checkExitConditions returns reason resolution with exit price exactly 1.0
\* when the held side equals the outcome and exactly 0.0 otherwise, provided
\* neither the target nor the stop-loss fires at that price point.
C27_ResolutionExit ==
  (ExitCall /\ ResolutionFires /\ ~TargetFires /\ ~StopLossFires) =>
    IsResolutionExit

\* Outcome YES with a held NO position, a stop-loss configured but not
\* breached: exit price 0.0 with reason resolution.
C27_Witness ==
  /\ ExitCall
  /\ evaluated.market.outcome = Some("YES")
  /\ evaluated.side = "NO"
  /\ strategy.riskConfig.stopLossPercent # Null
  /\ ResolutionFires
  /\ evaluated.result = Some(ExitSignal("m1", 0, evaluated.currentPrice.timestamp,
                                        "resolution"))

\* C29: calculatePositionSize returns 0 when openPositions >= maxPositions or
\* currentExposure >= maxExposureUsd, and otherwise the smaller of
\* positionSizeUsd and maxExposureUsd - currentExposure, so the exposure plus
\* the returned size never exceeds maxExposureUsd; the call changes no state.
C29_BalanceDrivenSizing ==
  [][ evaluated'.fn = "calculatePositionSize" =>
        LET currentExposure == evaluated'.currentExposure
            openPositions == evaluated'.openPositions
            risk == strategy.riskConfig
            size == evaluated'.result
        IN  /\ IF \/ openPositions >= risk.maxPositions
                  \/ currentExposure >= risk.maxExposureUsd
               THEN size = 0
               ELSE /\ size = IF risk.positionSizeUsd <=
                                   risk.maxExposureUsd - currentExposure
                              THEN risk.positionSizeUsd
                              ELSE risk.maxExposureUsd - currentExposure
                    /\ currentExposure + size <= risk.maxExposureUsd
            /\ strategy' = strategy
            /\ backtest' = backtest
    ]_vars

\* A size capped by the remaining exposure was returned.
C29_Witness ==
  /\ evaluated.fn = "calculatePositionSize"
  /\ evaluated.result > 0
  /\ evaluated.result < strategy.riskConfig.positionSizeUsd
  /\ evaluated.currentExposure + evaluated.result = strategy.riskConfig.maxExposureUsd

\* The trades completed so far for a market, and its open positions.
TradesOf(marketId) ==
  {n \in 1 .. Len(backtest.completedTrades) :
     backtest.completedTrades[n].market_id = marketId}

\* C28: within one run a market whose position has been closed (by target,
\* stop-loss, resolution or the forced close) is marked as traded and is
\* never entered again: it never holds a position afterwards and contributes
\* at most one trade.
C28_NoReentryAfterClose ==
  \A marketId \in Markets :
    /\ Cardinality(TradesOf(marketId)) +
         Cardinality(PositionsIn(backtest, marketId)) <= 1
    /\ TradesOf(marketId) # {} => marketId \in backtest.tradedMarkets
    /\ marketId \in backtest.tradedMarkets => PositionsIn(backtest, marketId) = {}

\* A market was closed before the end of its history, and a price point at or
\* after the close, already simulated, gave an entry signal with room for a
\* position.
C28_Witness ==
  /\ backtest.phase = "simulating"
  /\ \E n \in 1 .. Len(backtest.completedTrades) :
       LET trade == backtest.completedTrades[n]
           market == backtest.markets[backtest.i]
       IN  /\ trade.market_id = market.id
           /\ trade.exit_reason \in {"target", "stop_loss"}
           /\ ~market.tooVolatile
           /\ \E k \in 1 .. Len(market.priceHistory) :
                /\ k < backtest.j
                /\ market.priceHistory[k].timestamp >= trade.exit_time
                /\ checkEntryConditions(strategy, market,
                                        market.priceHistory[k]) # Null
                /\ calculatePositionSize(strategy, backtest.currentExposure,
                                         Cardinality(backtest.openPositions)) > 0

\* What the gates from the balance gate on must do with the state S in the
\* step in which the call leaves them.
BalanceGateDecides(c, S) ==
  IF InsufficientBalance(getAvailableBalance(S), calls'[c].sizeUsd)
  THEN RejectedWith(c, ErrBalance(getAvailableBalance(S), calls'[c].sizeUsd))
  ELSE ~(calls'[c].pc = "done" /\ IsGateReason(calls'[c].result.error))

\* The same from the exposure gate on; the balance gate reads the cache if it
\* serves and waits for a fetch otherwise.
ExposureGateDecides(c, S) ==
  IF ExceedsExposure(getTotalExposure(S), calls'[c].sizeUsd)
  THEN RejectedWith(c, ErrExposure)
  ELSE IF CacheServes(S, now, FALSE)
  THEN BalanceGateDecides(c, S)
  ELSE calls'[c].pc = "gate5"

\* C30: placeBuyOrder evaluates idempotency lookup, in-flight guard,
\* duplicate position/order, exposure limit, balance sufficiency in this
\* order. The lookup comes before any state read or other gate: a request
\* whose key has a row gets the stored result without a state read, also
\* when its market is in flight. Each later gate is reached only when the
\* earlier ones passed, and of several failing gates the earliest gives the
\* reason.
C30_PreflightOrder ==
  [][\A c \in CallIds :
       (calls'[c] # calls[c] /\ calls'[c].op = "buy") =>
         LET m == calls'[c].marketId
             hasPosition == IF "pos" \in calls[c].reads THEN calls[c].hasPosition
                            ELSE hasPositionInMarket(cachedState', m)
             hasOrder == IF "ord" \in calls[c].reads THEN calls[c].hasOrder
                         ELSE hasOpenOrderForMarket(cachedState', m)
         IN  /\ calls[c].pc = "idle" =>
                  IF calls'[c].key \in DOMAIN order_tracking
                  THEN /\ calls'[c].pc = "done"
                       /\ calls'[c].result =
                            ExistingResult(order_tracking[calls'[c].key])
                       /\ cachedState' = cachedState
                  ELSE IF BuyTag(m) \in pendingOrders
                  THEN RejectedWith(c, ErrInFlight)
                  ELSE calls'[c].pc = "gate3"
             /\ (calls[c].pc = "gate3" /\ calls'[c].pc # "gate3") =>
                  IF hasPosition THEN RejectedWith(c, ErrHasPosition)
                  ELSE IF hasOrder THEN RejectedWith(c, ErrHasOrder)
                  ELSE IF CacheServes(cachedState', now, FALSE)
                  THEN ExposureGateDecides(c, cachedState')
                  ELSE calls'[c].pc = "gate4"
             /\ calls[c].pc = "gate4" => ExposureGateDecides(c, cachedState')
             /\ calls[c].pc = "gate5" => BalanceGateDecides(c, cachedState')
    ]_vars

\* A buy was rejected for exposure on a state on which the balance gate would
\* have failed too.
C30_Witness ==
  \E c \in CallIds :
    /\ calls[c].op = "buy"
    /\ calls[c].pc = "done"
    /\ calls[c].result = Result(FALSE, NoId, ErrExposure)
    /\ ExceedsExposure(getTotalExposure(cachedState), calls[c].sizeUsd)
    /\ InsufficientBalance(getAvailableBalance(cachedState), calls[c].sizeUsd)

\* ---------------------------------------------------------------------
\* Audit record and in-flight registration during the venue call

\* The in-flight entry of a call's market.
TagOf(c) ==
  IF calls[c].op = "sell" THEN SellTag(calls[c].marketId)
  ELSE BuyTag(calls[c].marketId)

\* Call c awaits createAndPostMarketOrder.
AwaitsVenue(c) == calls[c].pc = "submit"

\* What a crash during the venue call of c leaves in order_tracking.
AuditRowPresent(c) ==
  /\ calls[c].key \in DOMAIN order_tracking
  /\ order_tracking[calls[c].key].status \in {"created", "submitted"}

\* The row of the intent's key is in the ledger, created or submitted, for as
\* long as the venue call is awaited.
AuditRowWhileAwaited ==
  \A c \in CallIds : AwaitsVenue(c) => AuditRowPresent(c)

\* The market is in the in-flight set for as long as the venue call is
\* awaited.
InFlightWhileAwaited ==
  \A c \in CallIds : AwaitsVenue(c) => TagOf(c) \in pendingOrders

\* C31: audit record precedes submission. While the venue call of an order is
\* awaited, the order_tracking row of its key exists with status created or
\* submitted (so a crash leaves it), and the market is in the in-flight set.
C31_AuditPrecedesSubmission ==
  AuditRowWhileAwaited /\ InFlightWhileAwaited

\* ---------------------------------------------------------------------
\* The order lifecycle when the ledger write after the fill throws

ErrLedgerWrite == <<"database write failed">>

\* No call stands between its UPDATE to filled and the INSERT that follows it
\* in the same synchronous run.
NoFillDue == \A c \in CallIds : calls[c].pc # "fillWritten"

\* createAndPostMarketOrder of a buy returned an order id and the UPDATE to
\* filled is committed; the INSERT INTO live_trades is the next statement.
FillThenInsertThrows(c) ==
  /\ NoLogDue
  /\ NoFillDue
  /\ calls[c].pc = "submit"
  /\ calls[c].op = "buy"
  /\ venue.balance >= calls[c].sizeUsd
  /\ LET orderId == <<"ord", venue.seq + 1>>
     IN  /\ venue' = [venue EXCEPT !.balance = @ - calls[c].sizeUsd,
                                   !.seq = @ + 1,
                                   !.positions = PositionsAfterBuy(calls[c].marketId, calls[c].sizeUsd)]
         /\ order_tracking' = UpdateOrder(order_tracking, calls[c].key, "filled", orderId, NoError)
         /\ SetCall(c, [calls[c] EXCEPT !.pc = "fillWritten", !.outcome = "orderId"])
  /\ UNCHANGED <<now, dryRun, strategy, evaluated, backtest, errors, killSwitch, cycles, stateCalls, cachedState,
                 live_trades, pendingOrders>>

\* The INSERT INTO live_trades throws: the catch block marks the row of the
\* key failed, a failure result is returned and `finally` removes the
\* in-flight entry.
CatchAfterFill(c) ==
  /\ calls[c].pc = "fillWritten"
  /\ Catch(c, calls[c], order_tracking, ErrLedgerWrite, BuyTag(calls[c].marketId))
  /\ UNCHANGED <<now, dryRun, strategy, evaluated, backtest, errors, killSwitch, cycles, stateCalls, cachedState,
                 live_trades, venue>>

NextLedgerFault ==
  \/ NoFillDue /\ \E c \in CallIds : BuyStart(c)
  \/ NoFillDue /\ \E c \in CallIds : BuyGate3Read(c)
  \/ NoFillDue /\ \E c \in CallIds : BuyGate4(c)
  \/ NoFillDue /\ \E c \in CallIds : BuyGate5(c)
  \/ NoFillDue /\ \E c \in CallIds : BuySubmitReturn(c)
  \/ NoFillDue /\ \E c \in CallIds : SellStart(c)
  \/ NoFillDue /\ \E c \in CallIds : SellSubmitReturn(c)
  \/ NoFillDue /\ \E c \in CallIds : LogTrade(c)
  \/ NoFillDue /\ Tick
  \/ \E c \in CallIds : FillThenInsertThrows(c)
  \/ \E c \in CallIds : CatchAfterFill(c)

SpecLedgerFault == Init /\ [][NextLedgerFault]_vars

TerminalStatuses == {"filled", "failed", "cancelled"}

\* The place of a status in the lifecycle.
StatusRank(status) ==
  CASE status = "created" -> 1
    [] status = "submitted" -> 2
    [] status = "live" -> 3
    [] OTHER -> 4

\* C32: forward-only order lifecycle. In every step every order_tracking row
\* stays in the table, a row that is filled, failed or cancelled keeps its
\* status, and no row moves to an earlier status.
C32_ForwardOnlyLifecycle ==
  [][\A key \in DOMAIN order_tracking :
       /\ key \in DOMAIN order_tracking'
       /\ order_tracking[key].status \in TerminalStatuses =>
            order_tracking'[key].status = order_tracking[key].status
       /\ StatusRank(order_tracking'[key].status) >=
            StatusRank(order_tracking[key].status)
    ]_vars

\* ---------------------------------------------------------------------
\* Resolution of every submitted order

\* Call c returned after its venue call returned or threw.
ReturnedFromVenue(c) ==
  /\ calls[c].pc = "done"
  /\ calls[c].nSub = 1

\* The row of call c is filled and carries an order id.
FilledWithId(c) ==
  /\ calls[c].key \in DOMAIN order_tracking
  /\ order_tracking[calls[c].key].status = "filled"
  /\ order_tracking[calls[c].key].order_id # NoId

\* The row of call c is failed and carries the message err.
FailedWith(c, err) ==
  /\ calls[c].key \in DOMAIN order_tracking
  /\ order_tracking[calls[c].key].status = "failed"
  /\ order_tracking[calls[c].key].error_message = err

\* C33: every submission is resolved. When a call returns after its venue
\* call, the order_tracking row of its key is filled with an order id if the
\* venue returned one, failed with 'No order ID returned' if the venue
\* returned none, and failed with the thrown message if the venue call threw.
C33_EverySubmissionResolved ==
  \A c \in CallIds :
    ReturnedFromVenue(c) =>
      CASE calls[c].outcome = "orderId" -> FilledWithId(c)
        [] calls[c].outcome = "noOrderId" -> FailedWith(c, ErrNoOrderId)
        [] calls[c].outcome = "throw" -> FailedWith(c, ErrVenueThrew)
        [] OTHER -> FALSE

\* ---------------------------------------------------------------------
\* Cache bypass and staleness

\* getState returned to call c in this step without starting a fetch.
ServedWithoutFetch(c) ==
  stateCalls[c].pc = "idle" /\ stateCalls'[c].pc = "done"

\* C34: cache bypass and staleness. getState returns without attempting a
\* live fetch only when forceRefresh is false and the cache is strictly
\* younger than staleThresholdMs, and what it then returns is the cache
\* tagged 'cache'; a forced call always starts a live fetch, and what it
\* returns is the state that fetch assembled, tagged 'api', not the cache.
C34_CacheBypassAndStaleness ==
  [][\A c \in StateCallIds :
       LET r == stateCalls'[c]
       IN  /\ ServedWithoutFetch(c) =>
                /\ ~r.forceRefresh
                /\ cachedState # NoState
                /\ now - cachedState.lastSyncTime < StaleThresholdMs
                /\ r.result = Answer(r.op, r.marketId,
                                     [cachedState EXCEPT !.syncSource = "cache"])
           /\ (stateCalls[c].pc = "idle" /\ r.pc # "idle" /\ r.forceRefresh) =>
                r.pc = "fetch"
           /\ (FetchEnds(c) /\ r.op # "reconcile") =>
                /\ r.pc = "done"
                /\ r.fetched.syncSource = "api"
                /\ r.fetched.lastSyncTime = r.t0
                /\ r.result = Answer(r.op, r.marketId, r.fetched)
    ]_vars

\* An unforced getState was served from the cache.
ServedFromCache ==
  \E c \in StateCallIds :
    /\ stateCalls[c].pc = "done"
    /\ stateCalls[c].op = "getState"
    /\ stateCalls[c].fetched = NoState
    /\ stateCalls[c].result.syncSource = "cache"

\* An unforced getState started when the cache was exactly staleThresholdMs
\* old, and fetched.
C34_Witness ==
  \E c \in StateCallIds :
    /\ stateCalls[c].pc = "done"
    /\ stateCalls[c].op = "getState"
    /\ ~stateCalls[c].forceRefresh
    /\ stateCalls[c].fetched # NoState
    /\ stateCalls[c].t0 = StaleThresholdMs
    /\ \E d \in stateCalls[c].prior :
         /\ stateCalls[d].fetched # NoState
         /\ stateCalls[d].fetched.lastSyncTime = 0

\* ---------------------------------------------------------------------
\* Daily trade limit

\* C35: daily trade limit. During one bot run status.tradesPlaced never
\* exceeds maxTradesPerDay, whatever the interleaving of the scan cycles.
C35_DailyTradeLimit == tradesPlaced <= maxTradesPerDay

\* ---------------------------------------------------------------------
\* The in-flight set and the submissions in flight

\* Some placeBuyOrder call for m is between its in-flight registration and
\* the end of its venue call.
BuyInFlight(m) ==
  \E c \in CallIds :
    /\ calls[c].op = "buy"
    /\ calls[c].marketId = m
    /\ calls[c].pc \in {"submit", "fillWritten"}

\* C36: the in-flight set mirrors the submissions in flight. A market is in
\* the in-flight set exactly when some placeBuyOrder call for it is between
\* its registration and the end of its venue call; in particular the return
\* of one call leaves the entry in place while another call for the same
\* market is still in flight.
C36_InFlightMirrorsSubmissions ==
  \A m \in Markets : BuyTag(m) \in pendingOrders <=> BuyInFlight(m)

\* ---------------------------------------------------------------------
\* Freshness of the cache

\* C37: cache freshness is monotonic. In every step the cached state's
\* lastSyncTime stays or grows: a fetch that started earlier never
\* overwrites the cache written by a fetch that started later.
C37_CacheFreshnessMonotonic ==
  [][cachedState'.lastSyncTime >= cachedState.lastSyncTime]_vars

\* ---------------------------------------------------------------------
\* Trade rows per entry

\* The live_trades rows of market m with status open or pending.
ActiveTrades(m) ==
  {i \in 1 .. Len(live_trades) :
     /\ live_trades[i].market_id = m
     /\ live_trades[i].status \in {"open", "pending"}}

\* C38: one TradeRecord per entry. Once the bot has processed an opportunity
\* whose placeBuyOrder succeeded, live_trades holds exactly one open or
\* pending row for that market, and at no time does a market have two open
\* or pending rows.
C38_OneTradeRecordPerEntry ==
  /\ \A c \in CallIds :
       (calls[c].op = "buy" /\ calls[c].logged) =>
         Cardinality(ActiveTrades(calls[c].marketId)) = 1
  /\ \A m \in Markets : Cardinality(ActiveTrades(m)) <= 1

\* ---------------------------------------------------------------------
\* What reconcile marks unknown

\* Row i of live_trades becomes unknown in this step.
BecomesUnknown(i) ==
  /\ live_trades[i].status # "unknown"
  /\ live_trades'[i].status = "unknown"

\* C39: reconcile acts only on observed truth. A live_trades row is marked
\* unknown only if, when reconcile's read returns, the venue holds neither a
\* position nor an open order in the row's market; a positions or
\* open-orders request that failed does not get a row marked unknown.
C39_ReconcileObservedTruth ==
  [][\A i \in 1 .. Len(live_trades) :
       BecomesUnknown(i) =>
         /\ ~hasPositionInMarket(venue, live_trades[i].market_id)
         /\ ~hasOpenOrderForMarket(venue, live_trades[i].market_id)
    ]_vars

\* ---------------------------------------------------------------------
\* Exposure and positions of a backtest run

\* C40: backtest exposure invariant. At every step of run(), currentExposure
\* is the sum of sizeUsd over the open positions, it lies between 0 and
\* maxExposureUsd, at most maxPositions positions are open, and no market
\* has two open positions.
C40_BacktestExposureInvariant ==
  backtest.phase \in {"simulating", "calculating"} =>
    /\ backtest.currentExposure = SumOver(backtest.openPositions, "sizeUsd")
    /\ backtest.currentExposure >= 0
    /\ backtest.currentExposure <= strategy.riskConfig.maxExposureUsd
    /\ Cardinality(backtest.openPositions) <= strategy.riskConfig.maxPositions
    /\ \A i \in 1 .. Len(backtest.markets) :
         Cardinality(PositionsIn(backtest, backtest.markets[i].id)) <= 1

\* Two positions are open at once, the second one cut down to the exposure
\* that was left, and the exposure limit is reached.
C40_Witness ==
  /\ backtest.phase \in {"simulating", "calculating"}
  /\ Cardinality(backtest.openPositions) = 2
  /\ \E q \in backtest.openPositions :
       q.sizeUsd < strategy.riskConfig.positionSizeUsd
  /\ backtest.currentExposure = strategy.riskConfig.maxExposureUsd

====
